---- MODULE Spec2Model ----
(***************************************************************************)
(* StaffOS provider scheduling (src/app.py): the SQLite record store, the  *)
(* shift forms that write to it, and the month/provider/client view that   *)
(* the calendar and the table render.  Two more programs of the repository *)
(* keep state of their own: the JSON-file scheduling portal                *)
(* (src/streamlit_app.py) and the ROI calculator                           *)
(* (src/multi_streamlined_roi_app.py).                                     *)
(*                                                                         *)
(* Times are whole seconds counted from 2024-01-01 00:00:00; dates are     *)
(* whole days counted from 2024-01-01.  A table is the sequence of its     *)
(* rows in rowid order, which is the order `SELECT * FROM t` returns them  *)
(* in (SQLite scans the rowid b-tree; a new row gets max(rowid)+1).        *)
(***************************************************************************)
EXTENDS Integers, Sequences, FiniteSets, TLC

VARIABLES
    t_providers,     \* rows of table providers
    t_clients,       \* rows of table clients
    t_credentials,   \* rows of table credentials
    t_shifts,        \* rows of table shifts
    selected_year,   \* st.session_state.selected_year
    selected_month,  \* st.session_state.selected_month
    prov_filter,     \* st.session_state.prov_filter
    cli_filter,      \* st.session_state.cli_filter
    safe_mode,       \* the sidebar toggle "Safe mode: auto-fix filters"
    cal_available,   \* CAL_AVAILABLE: the calendar component could be imported
    view,            \* df_shifts after the month/provider/client filter of the last render
    events,          \* the calendar events built from view by the last render
    table_df,        \* the table of the Shifts tab as the last render showed it
    raised,          \* the exception raised while the last render drew the page, "" if none
    last,            \* the last operation performed, with its arguments
    j_providers,     \* data/providers.json of the JSON-file portal
    j_sites,         \* data/sites.json
    j_shifts,        \* data/shifts.json
    j_page,          \* the portal's Shifts page as its last run rendered it
    total_beds,      \* the ROI calculator's "Total Beds in Unit"
    occupancy_pct,   \* "Current Staffed Bed Percentage (%)"
    locum_toggle,    \* "Use Locums?"
    locum_coverage_pct, \* "Locum Utilization (%)", 0 while locums are off
    beds_covered     \* the metric "Beds Staffed This Shift" of the last run

store == <<t_providers, t_clients, t_credentials, t_shifts>>
\* what the handlers of the tabs leave alone; the two filters are selectboxes,
\* whose values every run of the script reads anew
session == <<selected_year, selected_month, safe_mode, cal_available>>
rendered == <<view, events, table_df, raised>>
\* the state of the JSON-file portal and of the ROI calculator
portal == <<j_providers, j_sites, j_shifts, j_page>>
calculator == <<total_beds, occupancy_pct, locum_toggle, locum_coverage_pct, beds_covered>>
other_apps == <<j_providers, j_sites, j_shifts, j_page, total_beds, occupancy_pct,
                locum_toggle, locum_coverage_pct, beds_covered>>
\* the state of the SQLite app, but for the log
sqlite_app == <<t_providers, t_clients, t_credentials, t_shifts,
                selected_year, selected_month, prov_filter, cli_filter,
                safe_mode, cal_available, view, events, table_df, raised>>
vars == <<t_providers, t_clients, t_credentials, t_shifts,
          selected_year, selected_month, prov_filter, cli_filter,
          safe_mode, cal_available, view, events, table_df, raised, last,
          j_providers, j_sites, j_shifts, j_page, total_beds, occupancy_pct,
          locum_toggle, locum_coverage_pct, beds_covered>>

-----------------------------------------------------------------------------
(* Bounds of the model.                                                    *)

\* utcnow() readings are drawn from 1..MaxClock
MaxClock == 2
\* no handler adds a row to a table that already holds MaxRows rows
MaxRows == 2
\* the JSON-file portal creates no shift with an id above MaxShiftId
MaxShiftId == 4
\* the database a page is loaded on holds 1..MaxViewRows shifts
MaxViewRows == 1

-----------------------------------------------------------------------------
(* Python and SQL values.                                                  *)

\* SQL NULL in a String column
NULL == "<NULL>"
\* SQL NULL in a DateTime or Time column (stored values there are >= 0 or this)
NullT == 0 - 1

\* Python objects handed to a DateTime or Time column
PyDatetime(t) == [py |-> "datetime", t |-> t, s |-> ""]
PyTime(t) == [py |-> "time", t |-> t, s |-> ""]
PyStr(s) == [py |-> "str", t |-> 0, s |-> s]
PyNone == [py |-> "none", t |-> 0, s |-> ""]
\* float('nan'), what pd.read_csv makes of an empty cell
PyNaN == [py |-> "float", t |-> 0, s |-> "nan"]

Hour == 3600
Day == 24 * Hour

\* datetime.combine(d, t)
combine(d, t) == d * Day + t
\* datetime.date() and datetime.time()
DateOf(dt) == dt \div Day
TimeOf(dt) == dt % Day

-----------------------------------------------------------------------------
(* The tables.                                                             *)

providers ==
    [name |-> "providers", pk |-> "provider_id",
     cols |-> {"provider_id", "provider_name", "specialty",
               "preferred_shift_start", "preferred_shift_end", "preferred_days"},
     notnull |-> {"provider_id", "provider_name"},
     typed |-> [c \in {"preferred_shift_start", "preferred_shift_end"} |-> "time"]]

clients ==
    [name |-> "clients", pk |-> "client_id",
     cols |-> {"client_id", "client_name", "location"},
     notnull |-> {"client_id", "client_name"},
     typed |-> [c \in {} |-> "time"]]

\* id is INTEGER PRIMARY KEY: left out of an insert, it is the largest id plus one
credentials ==
    [name |-> "credentials", pk |-> "id",
     cols |-> {"id", "provider_id", "client_id"},
     notnull |-> {"provider_id", "client_id"},
     typed |-> [c \in {} |-> "time"]]

shifts ==
    [name |-> "shifts", pk |-> "shift_id",
     cols |-> {"shift_id", "provider_id", "client_id", "start_datetime",
               "end_datetime", "shift_type", "notes"},
     notnull |-> {"shift_id", "provider_id", "client_id", "start_datetime",
                  "end_datetime"},
     typed |-> [c \in {"start_datetime", "end_datetime"} |-> "datetime"]]

\* SQLAlchemy's SQLite DateTime/Time bind processors: None passes as NULL, an
\* object of the column's Python type is stored, anything else raises TypeError
BindOK(v, kind) == v.py \in {kind, "none"}
Stored(v) == IF v.py = "none" THEN NullT ELSE v.t

\* the statement compiles and binds: every key of the dict is a column, and
\* every typed column is given an object its bind processor accepts
RowAccepted(tbl, row) ==
    /\ DOMAIN row \subseteq tbl.cols
    /\ \A c \in DOMAIN row \cap DOMAIN tbl.typed : BindOK(row[c], tbl.typed[c])

ColValue(tbl, row, c) == IF c \in DOMAIN tbl.typed THEN Stored(row[c]) ELSE row[c]
ColNull(tbl, c) == IF c \in DOMAIN tbl.typed THEN NullT ELSE NULL

\* NOT NULL holds of the values the dict gives
NotNullOK(tbl, row) ==
    \A c \in DOMAIN row \cap tbl.notnull : ColValue(tbl, row, c) # ColNull(tbl, c)

\* the dict as a whole row: the columns it leaves out are NULL
FullRow(tbl, row) ==
    [c \in tbl.cols |-> IF c \in DOMAIN row THEN ColValue(tbl, row, c) ELSE ColNull(tbl, c)]

\* table.insert().values(**row): columns the dict leaves out are NULL; the
\* primary key is unique
InsertValues(T, tbl, row) ==
    IF /\ RowAccepted(tbl, row)
       /\ tbl.notnull \subseteq DOMAIN row
       /\ NotNullOK(tbl, row)
       /\ \A i \in DOMAIN T : T[i][tbl.pk] # row[tbl.pk]
    THEN [ok |-> TRUE,
          rows |-> Append(T, FullRow(tbl, row))]
    ELSE [ok |-> FALSE, rows |-> T]

\* mutant of UpdateValues: the WHERE clause is lost and every row is set
UpdateValues_EveryRow(T, tbl, row, key) ==
    IF RowAccepted(tbl, row) /\ NotNullOK(tbl, row)
    THEN [ok |-> TRUE,
          rows |-> [i \in DOMAIN T |->
                     [c \in tbl.cols |->
                        IF c \in DOMAIN row THEN ColValue(tbl, row, c) ELSE T[i][c]]]]
    ELSE [ok |-> FALSE, rows |-> T]

\* table.update().where(table.c[key] == row[key]).values(**row): SET names the
\* columns of the dict; the others keep what is stored
UpdateValues(T, tbl, row, key) ==
    IF RowAccepted(tbl, row) /\ NotNullOK(tbl, row)
    THEN [ok |-> TRUE,
          rows |-> [i \in DOMAIN T |->
                     IF T[i][key] = row[key]
                     THEN [c \in tbl.cols |->
                            IF c \in DOMAIN row THEN ColValue(tbl, row, c) ELSE T[i][c]]
                     ELSE T[i]]]
    ELSE [ok |-> FALSE, rows |-> T]

\* mutant of upsert: the existence test is lost, and every call adds a row to a
\* table that does not enforce its key
upsert_AlwaysInsert(T, tbl, row, key) ==
    IF key \in DOMAIN row /\ RowAccepted(tbl, row) /\ tbl.notnull \subseteq DOMAIN row
    THEN [ok |-> TRUE, rows |-> Append(T, FullRow(tbl, row))]
    ELSE [ok |-> FALSE, rows |-> T]

\* upsert(conn, table, row, key); ok = FALSE is an exception raised inside the
\* caller's `with engine.begin()`, which rolls the transaction back
upsert(T, tbl, row, key) ==
    IF key \notin DOMAIN row
    THEN [ok |-> FALSE, rows |-> T]
    ELSE IF \E i \in DOMAIN T : T[i][key] = row[key]
         THEN UpdateValues(T, tbl, row, key)
         ELSE InsertValues(T, tbl, row)

\* mutant of delete_by_id: the WHERE clause compares the wrong way round
delete_by_id_Others(T, key, value) == SelectSeq(T, LAMBDA r : r[key] = value)

\* delete_by_id(conn, table, key, value)
delete_by_id(T, key, value) == SelectSeq(T, LAMBDA r : r[key] # value)

\* generate_id(prefix): the prefix and the wall clock's reading, to the microsecond
generate_id(prefix, now) == prefix \o "_" \o ToString(now)

-----------------------------------------------------------------------------
(* The calendar (datetime.date, dateutil.relativedelta).                   *)

IsLeap(y) == (y % 4 = 0) /\ ((y % 100 # 0) \/ (y % 400 = 0))
DaysInMonth(y, m) ==
    IF m = 2 THEN (IF IsLeap(y) THEN 29 ELSE 28)
    ELSE IF m \in {4, 6, 9, 11} THEN 30 ELSE 31
DaysBeforeYear(y) == (y - 1) * 365 + (y - 1) \div 4 - (y - 1) \div 100 + (y - 1) \div 400
RECURSIVE DaysBeforeMonth(_, _)
DaysBeforeMonth(y, m) == IF m = 1 THEN 0 ELSE DaysBeforeMonth(y, m - 1) + DaysInMonth(y, m - 1)
ToOrdinal(y, m, d) == DaysBeforeYear(y) + DaysBeforeMonth(y, m) + d
\* date(y, m, d), in days from 2024-01-01
Date(y, m, d) == ToOrdinal(y, m, d) - ToOrdinal(2024, 1, 1)

\* month_range(year, month): the first and the last day of the month
month_range(year, month) ==
    LET first == Date(year, month, 1)
        next == IF month = 12 THEN Date(year + 1, 1, 1) ELSE Date(year, month + 1, 1)
    IN  [first |-> first, last |-> next - 1]

\* pd.Timestamp(d): midnight at the start of day d
Timestamp(d) == combine(d, 0)

-----------------------------------------------------------------------------
(* The page: the filtered shifts and the calendar events.                  *)

ALL == "(All)"

Column(T, c) == [i \in DOMAIN T |-> T[i][c]]
SeqToSet(s) == {s[i] : i \in DOMAIN s}
Abs(x) == IF x < 0 THEN 0 - x ELSE x

\* df.loc[df[namecol] == name, idcol].iloc[0]: the id of the first row named so
FirstId(T, namecol, idcol, name) ==
    LET hits == {i \in DOMAIN T : T[i][namecol] = name}
    IN  T[CHOOSE i \in hits : \A j \in hits : i <= j][idcol]

HasName(T, namecol, name) == \E i \in DOMAIN T : T[i][namecol] = name

\* the value of the sidebar selectbox: "(All)" without asking when the table is empty
FilterValue(T, chosen) == IF T = <<>> THEN ALL ELSE chosen

\* mutant of MonthFilter: the end bound is dropped (the start-only variant)
MonthFilter_StartOnly(df, first_day, last_day) ==
    SelectSeq(df, LAMBDA r : r.start_datetime >= Timestamp(first_day))

\* df_shifts[(start >= Timestamp(first_day)) & (end <= Timestamp(last_day) + 1 day)]
MonthFilter(df, first_day, last_day) ==
    IF df = <<>> THEN df
    ELSE SelectSeq(df, LAMBDA r : /\ r.start_datetime >= Timestamp(first_day)
                                  /\ r.end_datetime <= Timestamp(last_day) + Day)

\* the provider (client) filter: the rows of the first provider so named, every
\* row when the filter is "(All)" or names nobody
NameFilter(df, T, namecol, idcol, chosen) ==
    IF chosen # ALL /\ T # <<>> /\ HasName(T, namecol, chosen)
    THEN SelectSeq(df, LAMBDA r : r[idcol] = FirstId(T, namecol, idcol, chosen))
    ELSE df

\* df_shifts as the tabs see it
VisibleShifts(sh, provs, clis, year, month, pf, cf) ==
    LET mr == month_range(year, month)
        byMonth == MonthFilter(sh, mr.first, mr.last)
        byProv == NameFilter(byMonth, provs, "provider_name", "provider_id",
                             FilterValue(provs, pf))
    IN  NameFilter(byProv, clis, "client_name", "client_id", FilterValue(clis, cf))

COLOR_DEFAULT == "#96caba"
COLOR_DAY == "#065b56"
COLOR_NIGHT == "#4b4f54"
COLOR_CALL24 == "#fd9074"

\* `"night" in shift_type.lower()` and `"day" in shift_type.lower()`, over the
\* shift type labels of the model
NightLabels == {"Night"}
DayLabels == {"Day"}

\* pmap.get(id, "Unknown Provider")
NameOf(T, idcol, namecol, id, unknown) ==
    LET hits == {i \in DOMAIN T : T[i][idcol] = id}
    IN  IF hits = {} THEN unknown
        ELSE T[CHOOSE i \in hits : \A j \in hits : j <= i][namecol]

\* mutant of IsCall24: the tolerance is a minute instead of 0.01 hour
IsCall24_Minute(start_dt, end_dt) == Abs((end_dt - start_dt) - 24 * Hour) <= 60

\* abs(duration_hours - 24.0) < 0.01, with duration_hours = seconds / 3600.0
IsCall24(start_dt, end_dt) == Abs((end_dt - start_dt) - 24 * Hour) * 100 < Hour

EventColor(r) ==
    IF IsCall24(r.start_datetime, r.end_datetime) THEN COLOR_CALL24
    ELSE IF r.shift_type \in NightLabels THEN COLOR_NIGHT
    ELSE IF r.shift_type \in DayLabels THEN COLOR_DAY
    ELSE COLOR_DEFAULT

EventTitle(r, provs, clis) ==
    LET prov_name == NameOf(provs, "provider_id", "provider_name", r.provider_id,
                            "Unknown Provider")
        cli_name == NameOf(clis, "client_id", "client_name", r.client_id,
                           "Unknown Client")
    IN  IF r.shift_type \notin {NULL, ""}
        THEN prov_name \o " @ " \o cli_name \o " (" \o r.shift_type \o ")"
        ELSE prov_name \o " @ " \o cli_name

\* the events list handed to the calendar; start and end are the ISO texts of
\* the timestamps, written here as the timestamps they spell
BuildEvents(df, provs, clis) ==
    [i \in DOMAIN df |->
        [title |-> EventTitle(df[i], provs, clis),
         start |-> df[i].start_datetime,
         end |-> df[i].end_datetime,
         color |-> EventColor(df[i]),
         shift_id |-> df[i].shift_id,
         provider_id |-> df[i].provider_id,
         client_id |-> df[i].client_id,
         notes |-> df[i].notes]]

\* every handler ends in st.rerun() or falls through to the rest of the script:
\* the page is rendered from the tables and the session as the step leaves them
\* a keyed selectbox returns the session's value when it is one of its options,
\* and its first option, "(All)", otherwise; it is not shown for an empty table
SelectboxValue(T, namecol, chosen) ==
    IF T # <<>> /\ chosen \in SeqToSet(Column(T, namecol)) THEN chosen ELSE ALL

\* the filter names nobody in the reloaded table
Unmatched(T, namecol, chosen) == chosen # ALL /\ ~HasName(T, namecol, chosen)

NoException == ""
StreamlitAPIException == "StreamlitAPIException"
IndexError == "IndexError"

\* a shift whose provider or client is in no row of the reloaded tables
Dangling(r, provs, clis) ==
    \/ ~(\E i \in DOMAIN provs : provs[i].provider_id = r.provider_id)
    \/ ~(\E i \in DOMAIN clis : clis[i].client_id = r.client_id)

\* the month table shown without the calendar component: .iloc[0] on the
\* provider's (client's) rows, unless the table is empty
MonthTableRaises(df, provs, clis) ==
    \E i \in DOMAIN df :
        \/ provs # <<>> /\ ~(\E j \in DOMAIN provs : provs[j].provider_id = df[i].provider_id)
        \/ clis # <<>> /\ ~(\E j \in DOMAIN clis : clis[j].client_id = df[i].client_id)

\* the inline editor of the Shifts tab, opened on the first row of the table (the
\* selectbox at its default) when that row is stored: the index of the row's
\* provider (client) among the providers (clients), [0] of an empty index
InlineEditorRaises(df, sh, provs, clis) ==
    /\ df # <<>>
    /\ \E i \in DOMAIN sh : sh[i].shift_id = df[1].shift_id /\ Dangling(sh[i], provs, clis)

\* one run of the script, top to bottom, with no form submitted: provs1 and
\* clis1 are the tables as loaded at the top, sh, provs and clis as reloaded
\* after the sidebar; pf and cf are the session's filter values
RunScript(sh, provs1, clis1, provs, clis, year, month, pf, cf, safe, cal) ==
    LET prov_f == SelectboxValue(provs1, "provider_name", pf)
        cli_f == SelectboxValue(clis1, "client_name", cf)
        df_shifts == VisibleShifts(sh, provs, clis, year, month, prov_f, cli_f)
        \* st.session_state.prov_filter = "(All)" after the selectbox with that
        \* key was instantiated in this run
        autofix == safe /\ (\/ Unmatched(provs, "provider_name", prov_f)
                            \/ Unmatched(clis, "client_name", cli_f))
        evs == BuildEvents(df_shifts, provs, clis)
        month_table == ~cal /\ MonthTableRaises(df_shifts, provs, clis)
    IN  [prov_filter |-> prov_f, cli_filter |-> cli_f, view |-> df_shifts,
         events |-> IF autofix THEN <<>> ELSE evs,
         table_df |-> IF autofix \/ month_table THEN <<>> ELSE df_shifts,
         raised |-> CASE autofix -> StreamlitAPIException
                      [] month_table -> IndexError
                      [] InlineEditorRaises(df_shifts, sh, provs, clis) -> IndexError
                      [] OTHER -> NoException]

\* mutant of Rerun: the page is rendered from the collections the run loaded
\* before the handler wrote
Rerun_BeforeWrite(pf, cf) ==
    \E page \in {RunScript(t_shifts, t_providers, t_clients, t_providers, t_clients,
                            selected_year', selected_month', pf, cf,
                            safe_mode', cal_available')} :
        /\ prov_filter' = page.prov_filter
        /\ cli_filter' = page.cli_filter
        /\ view' = page.view
        /\ events' = page.events
        /\ table_df' = page.table_df
        /\ raised' = page.raised
        /\ UNCHANGED other_apps

\* every handler ends in st.rerun() or falls through to the rest of the script:
\* the page is rendered from the tables and the session as the step leaves them
Rerun(pf, cf) ==
    \E page \in {RunScript(t_shifts', t_providers', t_clients', t_providers', t_clients',
                            selected_year', selected_month', pf, cf,
                            safe_mode', cal_available')} :
        /\ prov_filter' = page.prov_filter
        /\ cli_filter' = page.cli_filter
        /\ view' = page.view
        /\ events' = page.events
        /\ table_df' = page.table_df
        /\ raised' = page.raised
        /\ UNCHANGED other_apps

-----------------------------------------------------------------------------
(* The operations log.                                                     *)

NoRow == [none |-> TRUE]

\* op: the handler; tbl, key: the table and the primary key written; src: the
\* shift an edit form was opened on; row: the dict handed to upsert; hit: a row
\* with that key was stored before; ok: no exception; repeat: the same call
\* with the same dict as the call before
Logged(op, tbl, key, src, row, hit, ok) ==
    [op |-> op, tbl |-> tbl, key |-> key, src |-> src, row |-> row, hit |-> hit,
     ok |-> ok,
     repeat |-> (last.op = op /\ last.tbl = tbl /\ last.row = row /\ row # NoRow)]

HasKey(T, key, v) == \E i \in DOMAIN T : T[i][key] = v
RowOf(T, key, v) == T[CHOOSE i \in DOMAIN T : T[i][key] = v]

-----------------------------------------------------------------------------
(* The handlers of the page.                                               *)

ShiftRow(sid, pid, cid, start_dt, end_dt, shift_type, notes) ==
    [shift_id |-> sid, provider_id |-> pid, client_id |-> cid,
     start_datetime |-> PyDatetime(start_dt), end_datetime |-> PyDatetime(end_dt),
     shift_type |-> shift_type, notes |-> notes]

\* the sidebar's Year and Month inputs
SetMonth(year, month) ==
    /\ <<year, month>> # <<selected_year, selected_month>>
    /\ selected_year' = year
    /\ selected_month' = month
    /\ last' = Logged("set_month", "", "", "", NoRow, FALSE, TRUE)
    /\ UNCHANGED <<store, safe_mode, cal_available>>
    /\ Rerun(prov_filter, cli_filter)

\* the sidebar's "Filter by Provider" selectbox, shown when there are providers
ChooseProviderFilter(name) ==
    /\ t_providers # <<>>
    /\ name \in {ALL} \cup SeqToSet(Column(t_providers, "provider_name"))
    /\ name # prov_filter
    /\ last' = Logged("prov_filter", "", "", "", NoRow, FALSE, TRUE)
    /\ UNCHANGED <<store, session>>
    /\ Rerun(name, cli_filter)

\* the sidebar's "Filter by Client" selectbox, shown when there are clients
ChooseClientFilter(name) ==
    /\ t_clients # <<>>
    /\ name \in {ALL} \cup SeqToSet(Column(t_clients, "client_name"))
    /\ name # cli_filter
    /\ last' = Logged("cli_filter", "", "", "", NoRow, FALSE, TRUE)
    /\ UNCHANGED <<store, session>>
    /\ Rerun(prov_filter, name)

\* the sidebar form "Quick Add Shift", submitted
QuickAdd(prov_name, cli_name, shift_date, start_t, is_24h, end_t, shift_type, notes, now) ==
    /\ t_providers # <<>> /\ t_clients # <<>>
    /\ HasName(t_providers, "provider_name", prov_name)
    /\ HasName(t_clients, "client_name", cli_name)
    /\ Len(t_shifts) < MaxRows
    /\ LET provider_id == FirstId(t_providers, "provider_name", "provider_id", prov_name)
           client_id == FirstId(t_clients, "client_name", "client_id", cli_name)
           sid == generate_id("S", now)
           start_dt == combine(shift_date, start_t)
           end_dt == IF is_24h THEN start_dt + 24 * Hour ELSE combine(shift_date, end_t)
           row == ShiftRow(sid, provider_id, client_id, start_dt, end_dt, shift_type, notes)
           res == upsert(t_shifts, shifts, row, "shift_id")
       IN  /\ provider_id # "" /\ client_id # ""
           /\ t_shifts' = res.rows
           /\ last' = Logged("add", "shifts", sid, "", row,
                             HasKey(t_shifts, "shift_id", sid), res.ok)
    /\ UNCHANGED <<t_providers, t_clients, t_credentials, session>>
    /\ Rerun(prov_filter, cli_filter)

\* the options of an edit form's Provider (Client) selectbox
NameOptions(T, namecol) == IF T = <<>> THEN {"(none)"} ELSE SeqToSet(Column(T, namecol))

\* `if delete:` of the three edit forms
DeleteShift(sid) ==
    /\ t_shifts' = delete_by_id(t_shifts, "shift_id", sid)
    /\ last' = Logged("delete", "shifts", sid, sid, NoRow,
                      HasKey(t_shifts, "shift_id", sid), TRUE)
    /\ UNCHANGED <<t_providers, t_clients, t_credentials, session>>
    /\ Rerun(prov_filter, cli_filter)

\* `if save or dup:` of the three edit forms; old_prov_id and old_cli_id are
\* what the form falls back on when the chosen name is no provider's (client's)
SaveOrDuplicate(sid, old_prov_id, old_cli_id, dup, prov_name_edit, cli_name_edit, start_date_edit, start_time_edit, is_24h_edit, end_date_edit, end_time_edit, shift_type_edit, notes_edit, now) ==
    LET new_prov_id ==
            IF HasName(t_providers, "provider_name", prov_name_edit)
            THEN FirstId(t_providers, "provider_name", "provider_id", prov_name_edit)
            ELSE old_prov_id
        new_cli_id ==
            IF HasName(t_clients, "client_name", cli_name_edit)
            THEN FirstId(t_clients, "client_name", "client_id", cli_name_edit)
            ELSE old_cli_id
        start_dt_new == combine(start_date_edit, start_time_edit)
        end_dt_new == IF is_24h_edit THEN start_dt_new + 24 * Hour
                      ELSE combine(end_date_edit, end_time_edit)
        new_id == IF dup THEN generate_id("S", now) ELSE sid
        row == ShiftRow(new_id, new_prov_id, new_cli_id, start_dt_new, end_dt_new,
                        shift_type_edit, notes_edit)
        res == upsert(t_shifts, shifts, row, "shift_id")
    IN  /\ dup => Len(t_shifts) < MaxRows
        /\ t_shifts' = res.rows
        /\ last' = Logged(IF dup THEN "dup" ELSE "save", "shifts", new_id, sid,
                          row, HasKey(t_shifts, "shift_id", new_id), res.ok)
        /\ UNCHANGED <<t_providers, t_clients, t_credentials, session>>
        /\ Rerun(prov_filter, cli_filter)

\* the Calendar tab's "Select a shift to edit" form (no event clicked), submitted
CalendarFallback(selected_id, button, prov_name_edit, cli_name_edit, start_date_edit, start_time_edit, is_24h_edit, end_date_edit, end_time_edit, shift_type_edit, notes_edit, now) ==
    /\ \E i \in DOMAIN events : events[i].shift_id = selected_id
    /\ HasKey(t_shifts, "shift_id", selected_id)
    /\ prov_name_edit \in NameOptions(t_providers, "provider_name")
    /\ cli_name_edit \in NameOptions(t_clients, "client_name")
    /\ LET row == RowOf(t_shifts, "shift_id", selected_id)
       IN  IF button = "delete"
           THEN DeleteShift(selected_id)
           ELSE SaveOrDuplicate(selected_id, row.provider_id, row.client_id,
                                button = "dup", prov_name_edit, cli_name_edit,
                                start_date_edit, start_time_edit, is_24h_edit,
                                end_date_edit, end_time_edit, shift_type_edit,
                                notes_edit, now)

\* the Shifts tab's inline editor, submitted; building the form indexes the
\* provider and the client of the row, which raises when either is missing
InlineEditor(selected_id, button, prov_name_edit, cli_name_edit, start_date_edit, start_time_edit, is_24h_edit, end_date_edit, end_time_edit, shift_type_edit, notes_edit, now) ==
    /\ \E i \in DOMAIN view : view[i].shift_id = selected_id
    /\ HasKey(t_shifts, "shift_id", selected_id)
    /\ LET row == RowOf(t_shifts, "shift_id", selected_id)
       IN  /\ HasKey(t_providers, "provider_id", row.provider_id)
           /\ HasKey(t_clients, "client_id", row.client_id)
           /\ prov_name_edit \in SeqToSet(Column(t_providers, "provider_name"))
           /\ cli_name_edit \in SeqToSet(Column(t_clients, "client_name"))
           /\ IF button = "delete"
              THEN DeleteShift(selected_id)
              ELSE SaveOrDuplicate(selected_id, row.provider_id, row.client_id,
                                   button = "dup", prov_name_edit, cli_name_edit,
                                   start_date_edit, start_time_edit, is_24h_edit,
                                   end_date_edit, end_time_edit, shift_type_edit,
                                   notes_edit, now)

\* parse_time(t), over the texts the model types into the form
ClockTexts == ("08:00" :> 8 * Hour) @@ ("16:00" :> 16 * Hour)
parse_time(t) == IF t \in DOMAIN ClockTexts THEN PyTime(ClockTexts[t]) ELSE PyNone

\* mutant of MissingRequired: only the id is required
MissingRequired_IdOnly(id, name) == id = ""

\* `if not pid or not pname:` (`if not cid or not cname:`)
MissingRequired(id, name) == id = "" \/ name = ""

\* the Providers tab's form "Save Provider", submitted
SaveProvider(pid, pname, spec, pstart, pend, pdays) ==
    LET row == [provider_id |-> pid, provider_name |-> pname, specialty |-> spec,
                preferred_shift_start |-> parse_time(pstart),
                preferred_shift_end |-> parse_time(pend),
                preferred_days |-> pdays]
        res == upsert(t_providers, providers, row, "provider_id")
    IN  /\ IF MissingRequired(pid, pname)
           THEN /\ last' = Logged("save_provider", "providers", pid, "", row, FALSE, FALSE)
                /\ UNCHANGED t_providers
           ELSE /\ HasKey(t_providers, "provider_id", pid) \/ Len(t_providers) < MaxRows
                /\ t_providers' = res.rows
                /\ last' = Logged("save_provider", "providers", pid, "", row,
                                  HasKey(t_providers, "provider_id", pid), res.ok)
        /\ UNCHANGED <<t_clients, t_credentials, t_shifts, session>>
        /\ Rerun(prov_filter, cli_filter)

\* the Clients tab's form "Save Client", submitted
SaveClient(cid, cname, loc) ==
    LET row == [client_id |-> cid, client_name |-> cname, location |-> loc]
        res == upsert(t_clients, clients, row, "client_id")
    IN  /\ IF MissingRequired(cid, cname)
           THEN /\ last' = Logged("save_client", "clients", cid, "", row, FALSE, FALSE)
                /\ UNCHANGED t_clients
           ELSE /\ HasKey(t_clients, "client_id", cid) \/ Len(t_clients) < MaxRows
                /\ t_clients' = res.rows
                /\ last' = Logged("save_client", "clients", cid, "", row,
                                  HasKey(t_clients, "client_id", cid), res.ok)
        /\ UNCHANGED <<t_providers, t_credentials, t_shifts, session>>
        /\ Rerun(prov_filter, cli_filter)

-----------------------------------------------------------------------------
(* Spec: the scheduling page from an empty database.                       *)

Years == {2025}
Months == {1, 2}
Clock == 1..MaxClock
\* the dates and times of day the model types into the shift forms
FormDates == {Date(2025, 1, 31), Date(2025, 2, 1)}
FormTimes == {0, 8 * Hour}
ShiftTypes == {"Day"}
NoteTexts == {""}
ProviderIds == {"P1"}
ProviderNames == {"Ann"}
ClientIds == {"C1"}
ClientNames == {"Riverside"}
Buttons == {"save", "dup", "delete"}

\* the JSON-file portal is not running: no data files, no page
PortalIdle ==
    /\ j_providers = <<>>
    /\ j_sites = <<>>
    /\ j_shifts = <<>>
    /\ j_page = [rows |-> <<>>, selected |-> 0, raised |-> ""]

\* the ROI calculator is not running: its widgets are at their defaults
CalculatorIdle ==
    /\ total_beds = 18
    /\ occupancy_pct = 75
    /\ locum_toggle = FALSE
    /\ locum_coverage_pct = 0
    /\ beds_covered = 13

OtherAppsIdle == PortalIdle /\ CalculatorIdle

NoLog == [op |-> "init", tbl |-> "", key |-> "", src |-> "", row |-> NoRow,
          hit |-> FALSE, ok |-> TRUE, repeat |-> FALSE]

Init ==
    /\ t_providers = <<>>
    /\ t_clients = <<>>
    /\ t_credentials = <<>>
    /\ t_shifts = <<>>
    /\ selected_year \in Years
    /\ selected_month \in Months
    /\ prov_filter = ALL
    /\ cli_filter = ALL
    /\ safe_mode = TRUE
    /\ cal_available = TRUE
    /\ view = <<>>
    /\ events = <<>>
    /\ table_df = <<>>
    /\ raised = NoException
    /\ last = NoLog
    /\ OtherAppsIdle

\* what a submitted edit form can hold: Delete reads no field, a ticked 24-hour
\* box leaves the end date and time unread, and only Duplicate reads the clock
EditInputs(dates, times, types, notes) ==
    {f \in [button : Buttons, sd : dates, st : times, h : BOOLEAN, ed : dates,
            et : times, ty : types, nt : notes, now : Clock] :
        /\ f.button = "delete" =>
              /\ f.sd = CHOOSE d \in dates : TRUE
              /\ f.st = CHOOSE t \in times : TRUE
              /\ f.h
              /\ f.ty = CHOOSE t \in types : TRUE
              /\ f.nt = CHOOSE t \in notes : TRUE
        /\ f.h => f.ed = f.sd /\ f.et = f.st
        /\ f.button # "dup" => f.now = 1}

Next ==
    \/ \E y \in Years, m \in Months : SetMonth(y, m)
    \/ \E pid \in ProviderIds \cup {""}, pname \in ProviderNames \cup {""} :
          SaveProvider(pid, pname, "", "08:00", "16:00", "Mon,Tue,Wed")
    \/ \E cid \in ClientIds \cup {""}, cname \in ClientNames \cup {""} :
          SaveClient(cid, cname, "")
    \/ \E pn \in ProviderNames, cn \in ClientNames, d \in FormDates, st \in FormTimes,
          h \in BOOLEAN, et \in FormTimes, ty \in ShiftTypes, nt \in NoteTexts,
          now \in Clock :
          QuickAdd(pn, cn, d, st, h, et, ty, nt, now)
    \/ \E i \in DOMAIN t_shifts, pn \in ProviderNames, cn \in ClientNames,
          f \in EditInputs(FormDates, FormTimes, ShiftTypes, NoteTexts) :
          CalendarFallback(t_shifts[i].shift_id, f.button, pn, cn, f.sd, f.st, f.h,
                           f.ed, f.et, f.ty, f.nt, f.now)
    \/ \E i \in DOMAIN t_shifts, pn \in ProviderNames, cn \in ClientNames,
          f \in EditInputs(FormDates, FormTimes, ShiftTypes, NoteTexts) :
          InlineEditor(t_shifts[i].shift_id, f.button, pn, cn, f.sd, f.st, f.h,
                       f.ed, f.et, f.ty, f.nt, f.now)

Spec == Init /\ [][Next]_vars

-----------------------------------------------------------------------------
(* Claims about the scheduling page (Spec).                                *)

\* C1 (as claimed): after any sequence of quick-add, Save changes and Duplicate
\* from an empty store, every stored shift ends after it starts.
C1_EndAfterStart ==
    \A i \in DOMAIN t_shifts : t_shifts[i].end_datetime > t_shifts[i].start_datetime

\* C4 (as claimed): Duplicate on a stored shift writes under an id that is neither
\* the source's nor any other stored shift's, leaves the source row as it was,
\* and the table grows by exactly one row.
C4_DuplicateMintsFreshId ==
    [][(last'.op = "dup" /\ HasKey(t_shifts, "shift_id", last'.src)) =>
          /\ last'.key # last'.src
          /\ ~HasKey(t_shifts, "shift_id", last'.key)
          /\ HasKey(t_shifts', "shift_id", last'.src)
          /\ RowOf(t_shifts', "shift_id", last'.src) = RowOf(t_shifts, "shift_id", last'.src)
          /\ Len(t_shifts') = Len(t_shifts) + 1]_vars

\* C5 (as claimed): a submitted quick-add writes under an id no stored shift has:
\* no stored row is overwritten and the table grows by exactly one row.
C5_QuickAddNeverOverwrites ==
    [][last'.op = "add" =>
          /\ ~HasKey(t_shifts, "shift_id", last'.key)
          /\ Len(t_shifts') = Len(t_shifts) + 1
          /\ \A i \in DOMAIN t_shifts : t_shifts'[i] = t_shifts[i]]_vars

\* C9 (as claimed): with no provider or client filter, a 24-hour shift that
\* starts at any time of the last day of the selected month is in the view.
C9_LastDayCallShiftVisible ==
    (FilterValue(t_providers, prov_filter) = ALL /\ FilterValue(t_clients, cli_filter) = ALL) =>
        \A i \in DOMAIN t_shifts :
            (/\ t_shifts[i].end_datetime - t_shifts[i].start_datetime = 24 * Hour
             /\ DateOf(t_shifts[i].start_datetime)
                    = month_range(selected_year, selected_month).last)
            => \E j \in DOMAIN view : view[j] = t_shifts[i]

\* C10 (as claimed): the visible shifts are in ascending order of start timestamp.
C10_ViewOrderedByStart ==
    \A i, j \in DOMAIN view :
        i < j => view[i].start_datetime <= view[j].start_datetime

-----------------------------------------------------------------------------
(* SpecStore: the record store under single upserts and deletes.           *)

TableNow(name) ==
    CASE name = "shifts" -> t_shifts
      [] name = "providers" -> t_providers
      [] OTHER -> t_clients

TableNext(name) ==
    CASE name = "shifts" -> t_shifts'
      [] name = "providers" -> t_providers'
      [] OTHER -> t_clients'

\* one call of upsert in a transaction of its own, as a form's save or the
\* import of a one-row CSV file makes it; an exception rolls back and ends the run
UpsertOnce(tbl, row) ==
    LET T == TableNow(tbl.name)
        res == upsert(T, tbl, row, tbl.pk)
        k == IF tbl.pk \in DOMAIN row THEN row[tbl.pk] ELSE ""
    IN  /\ HasKey(T, tbl.pk, k) \/ Len(T) < MaxRows
        /\ t_shifts' = IF tbl.name = "shifts" THEN res.rows ELSE t_shifts
        /\ t_providers' = IF tbl.name = "providers" THEN res.rows ELSE t_providers
        /\ t_clients' = IF tbl.name = "clients" THEN res.rows ELSE t_clients
        /\ last' = Logged("upsert", tbl.name, k, "", row, HasKey(T, tbl.pk, k), res.ok)
        /\ UNCHANGED <<t_credentials, session>>
        /\ Rerun(prov_filter, cli_filter)

StoreShiftIds == {generate_id("S", n) : n \in Clock}
StoreStart == combine(Date(2025, 1, 10), 8 * Hour)

\* dicts for table shifts: the forms' (every column, datetime objects); a CSV
\* file's with some of the columns; a CSV file's with the template's columns,
\* whose dates are text; a CSV file's without the key column
StoreShiftRows ==
    {ShiftRow(id, "P1", "C1", StoreStart, StoreStart + 8 * Hour, "Day", nt) :
        id \in StoreShiftIds, nt \in {""}}
    \cup {[shift_id |-> id, notes |-> "moved"] : id \in StoreShiftIds}
    \cup {[shift_id |-> id, provider_id |-> "P2"] : id \in StoreShiftIds}
    \cup {[shift_id |-> id, provider_id |-> "P1", client_id |-> "C1",
           start_datetime |-> PyStr("2025-01-10 08:00"),
           end_datetime |-> PyStr("2025-01-10 16:00"),
           shift_type |-> "Day", notes |-> "csv"] : id \in StoreShiftIds}
    \cup {[notes |-> "no key"]}

StoreProviderRows ==
    {[provider_id |-> "P1", provider_name |-> n, specialty |-> "",
      preferred_shift_start |-> parse_time("08:00"),
      preferred_shift_end |-> parse_time("16:00"),
      preferred_days |-> "Mon,Tue,Wed"] : n \in {"Ann"}}
    \cup {[provider_id |-> "P1", specialty |-> "Cardiology"]}

StoreClientRows ==
    {[client_id |-> "C1", client_name |-> "Riverside", location |-> ""]}
    \cup {[client_id |-> "C1", location |-> "Austin, TX"]}

InitStore ==
    /\ t_providers = <<>>
    /\ t_clients = <<>>
    /\ t_credentials = <<>>
    /\ t_shifts = <<>>
    /\ selected_year = 2025
    /\ selected_month = 1
    /\ prov_filter = ALL
    /\ cli_filter = ALL
    /\ safe_mode = TRUE
    /\ cal_available = TRUE
    /\ view = <<>>
    /\ events = <<>>
    /\ table_df = <<>>
    /\ raised = NoException
    /\ last = NoLog
    /\ OtherAppsIdle

NextStore ==
    \/ \E row \in StoreShiftRows : UpsertOnce(shifts, row)
    \/ \E row \in StoreProviderRows : UpsertOnce(providers, row)
    \/ \E row \in StoreClientRows : UpsertOnce(clients, row)
    \/ \E id \in StoreShiftIds : DeleteShift(id)

SpecStore == InitStore /\ [][NextStore]_vars

UniqueKey(T, key) == \A i, j \in DOMAIN T : T[i][key] = T[j][key] => i = j

\* C2 (as claimed): an upsert that goes through appends the given row when no
\* stored row has its key, and otherwise puts the given row, whole, in place of
\* the one stored row with that key; every other row and table stays as it was,
\* and no provider_id, client_id or shift_id is stored twice.
C2_UpsertInsertsOrReplacesInFull ==
    [][(last'.op = "upsert" /\ last'.ok) =>
          LET n == last'.tbl
              tbl == CASE n = "shifts" -> shifts [] n = "providers" -> providers
                       [] OTHER -> clients
              before == TableNow(n)
              after == TableNext(n)
              given == FullRow(tbl, last'.row)
          IN  /\ IF HasKey(before, tbl.pk, last'.key)
                 THEN /\ Len(after) = Len(before)
                      /\ \A i \in DOMAIN before :
                            after[i] = IF before[i][tbl.pk] = last'.key
                                       THEN given ELSE before[i]
                 ELSE after = Append(before, given)
              /\ \A m \in {"shifts", "providers", "clients"} \ {n} :
                    TableNext(m) = TableNow(m)
              /\ UniqueKey(t_shifts', "shift_id")
              /\ UniqueKey(t_providers', "provider_id")
              /\ UniqueKey(t_clients', "client_id")]_vars

\* C3: upsert is idempotent: the same upsert, with the same dict, made a second
\* time straight after the first leaves every table as the first left it.
C3_UpsertIdempotent ==
    [][(last'.op = "upsert" /\ last'.repeat) => store' = store]_vars

\* C3's case: an upsert that went through has just been made a second time
C3_Witness ==
    /\ last.op = "upsert" /\ last.repeat /\ last.ok /\ last.tbl = "shifts"
    /\ Len(t_shifts) = 2

\* C6: deleting a shift by id leaves no row with that id, keeps every other
\* shift, changes nothing when no row has the id, and leaves providers, clients
\* and credentials as they were.
C6_DeleteRemovesOnlyThatShift ==
    [][last'.op = "delete" =>
          /\ ~HasKey(t_shifts', "shift_id", last'.key)
          /\ \A i \in DOMAIN t_shifts :
                t_shifts[i].shift_id # last'.key => t_shifts[i] \in SeqToSet(t_shifts')
          /\ SeqToSet(t_shifts') \subseteq SeqToSet(t_shifts)
          /\ Len(t_shifts') = Len(t_shifts) - (IF last'.hit THEN 1 ELSE 0)
          /\ ~last'.hit => t_shifts' = t_shifts
          /\ UNCHANGED <<t_providers, t_clients, t_credentials>>]_vars

\* C6's case: a delete has removed the shift with its id and another shift is
\* still stored
C6_Witness == last.op = "delete" /\ last.hit /\ t_shifts # <<>>

-----------------------------------------------------------------------------
(* SpecView: the page loaded on a database that already holds shifts.      *)

\* the start of January 2025 and the second before it, a morning on the last
\* day of January, the start of February
ViewStarts ==
    {Timestamp(Date(2025, 1, 1)) - 1, Timestamp(Date(2025, 1, 1)),
     combine(Date(2025, 1, 31), 8 * Hour), Timestamp(Date(2025, 2, 1))}

\* a day shift, 23 hours, 24 hours and its neighbours to the second and to the
\* minute, and shifts that end at, just after and a day after the end of a month
\* that began with them
ViewDurations ==
    {8 * Hour, 23 * Hour, 24 * Hour - 60, 24 * Hour - 36, 24 * Hour - 35, 24 * Hour,
     24 * Hour + 35, 24 * Hour + 36, 24 * Hour + 60,
     28 * Day, 28 * Day + 1, 31 * Day, 31 * Day + 1, 32 * Day}

ViewTypes == {"Day", ""}

\* tables of 1..MaxViewRows shifts; row i has the id generate_id gave at time i
ViewShiftTables ==
    UNION {[1..n -> [start : ViewStarts, dur : ViewDurations, ty : ViewTypes]] :
              n \in 1..MaxViewRows}

StoredShift(i, c) ==
    [shift_id |-> generate_id("S", i), provider_id |-> "P1", client_id |-> "C1",
     start_datetime |-> c.start, end_datetime |-> c.start + c.dur,
     shift_type |-> c.ty, notes |-> ""]

\* the rows are as any writer of the database file left them: the columns are
\* DateTime, and the page renders what it finds
InitView ==
    /\ t_providers = <<FullRow(providers, [provider_id |-> "P1", provider_name |-> "Ann"])>>
    /\ t_clients = <<FullRow(clients, [client_id |-> "C1", client_name |-> "Riverside"])>>
    /\ t_credentials = <<>>
    /\ \E cs \in ViewShiftTables : t_shifts = [i \in DOMAIN cs |-> StoredShift(i, cs[i])]
    /\ selected_year \in Years
    /\ selected_month \in Months
    /\ prov_filter = ALL
    /\ cli_filter = ALL
    /\ safe_mode = TRUE
    /\ cal_available = TRUE
    /\ view = VisibleShifts(t_shifts, t_providers, t_clients, selected_year,
                            selected_month, prov_filter, cli_filter)
    /\ events = BuildEvents(view, t_providers, t_clients)
    /\ table_df = view
    /\ raised = NoException
    /\ last = NoLog
    /\ OtherAppsIdle

NextView ==
    \/ \E y \in Years, m \in Months : SetMonth(y, m)
    \/ \E name \in {ALL} \cup ProviderNames : ChooseProviderFilter(name)
    \/ \E name \in {ALL} \cup ClientNames : ChooseClientFilter(name)

SpecView == InitView /\ [][NextView]_vars

Unfiltered ==
    FilterValue(t_providers, prov_filter) = ALL /\ FilterValue(t_clients, cli_filter) = ALL
InView(r) == \E j \in DOMAIN view : view[j] = r
Duration(e) == e.end - e.start

\* C7 (as claimed): an event is in the call colour whenever its shift lasts 24
\* hours give or take a minute, and never when it lasts 23 hours.
C7_CallColourWithinOneMinute ==
    \A i \in DOMAIN events :
        /\ Abs(Duration(events[i]) - 24 * Hour) <= 60 => events[i].color = COLOR_CALL24
        /\ Duration(events[i]) = 23 * Hour => events[i].color # COLOR_CALL24

\* C7 (amended): an event is in the call colour exactly when its shift's length
\* is less than 36 seconds (0.01 hour) away from 24 hours; so a shift of 23h59m
\* or 24h01m is not a call shift, and neither is one of 23 hours.
C7_CallColourWithin36Seconds ==
    \A i \in DOMAIN events :
        /\ events[i].color = COLOR_CALL24 <=> Abs(Duration(events[i]) - 24 * Hour) < 36
        /\ Duration(events[i]) = 23 * Hour => events[i].color # COLOR_CALL24

\* C7's case: a shift 35 seconds over 24 hours is shown in the call colour, and
\* the page has been rendered
C7_Witness ==
    \E i \in DOMAIN events :
        Duration(events[i]) = 24 * Hour + 35 /\ events[i].color = COLOR_CALL24

\* C8 (as claimed): with no filter, a shift that starts at 00:00 of the first day
\* of the selected month is in the view whatever its end, and a shift that
\* starts one second earlier is not.
C8_FirstDayStartAlwaysVisible ==
    Unfiltered =>
        \A i \in DOMAIN t_shifts :
            LET first == Timestamp(month_range(selected_year, selected_month).first)
            IN  /\ t_shifts[i].start_datetime = first => InView(t_shifts[i])
                /\ t_shifts[i].start_datetime = first - 1 => ~InView(t_shifts[i])

\* C8 (amended): with no filter, a shift that starts at 00:00 of the first day of
\* the selected month is in the view exactly when it ends no later than 00:00 of
\* the first day of the next month, and a shift that starts one second earlier
\* is not in the view.
C8_FirstDayStartVisibleIfEndsInMonth ==
    Unfiltered =>
        \A i \in DOMAIN t_shifts :
            LET mr == month_range(selected_year, selected_month)
                first == Timestamp(mr.first)
            IN  /\ t_shifts[i].start_datetime = first =>
                      (InView(t_shifts[i])
                          <=> t_shifts[i].end_datetime <= Timestamp(mr.last + 1))
                /\ t_shifts[i].start_datetime = first - 1 => ~InView(t_shifts[i])

\* C8's case: a shift from 00:00 of the first day to 00:00 of the first day of
\* the next month, with no filter, is in the rendered view
C8_Witness ==
    /\ Unfiltered
    /\ \E i \in DOMAIN t_shifts :
          LET mr == month_range(selected_year, selected_month)
          IN  /\ t_shifts[i].start_datetime = Timestamp(mr.first)
              /\ t_shifts[i].end_datetime = Timestamp(mr.last + 1)
              /\ InView(t_shifts[i])

\* C19 (as claimed): the table of the Shifts tab holds the all-time filtered
\* set: every stored shift that passes the provider and the client filter, in
\* or out of the selected month, so a matching shift of another month is in the
\* table while it is off the calendar.
C19_TableShowsAllTimeFiltered ==
    raised = NoException =>
        LET byProv == NameFilter(t_shifts, t_providers, "provider_name", "provider_id",
                                 FilterValue(t_providers, prov_filter))
            allTime == NameFilter(byProv, t_clients, "client_name", "client_id",
                                  FilterValue(t_clients, cli_filter))
        IN  Column(table_df, "shift_id") = Column(allTime, "shift_id")

-----------------------------------------------------------------------------
(* SpecShared: the page of one session while another session writes to the *)
(* same database file.                                                     *)

\* the sidebar toggle "Safe mode: auto-fix filters"
ToggleSafeMode ==
    /\ safe_mode' = ~safe_mode
    /\ last' = Logged("safe_mode", "", "", "", NoRow, FALSE, TRUE)
    /\ UNCHANGED <<store, selected_year, selected_month, cal_available>>
    /\ Rerun(prov_filter, cli_filter)

\* a run of this session's script during which another session's Save Provider
\* or Save Client commits after the load at the top of the script and before
\* the reload that follows the sidebar
RerunAcrossSave(tbl, row) ==
    LET T == TableNow(tbl.name)
        res == upsert(T, tbl, row, tbl.pk)
        provs == IF tbl.name = "providers" THEN res.rows ELSE t_providers
        clis == IF tbl.name = "clients" THEN res.rows ELSE t_clients
        page == RunScript(t_shifts, t_providers, t_clients, provs, clis,
                          selected_year, selected_month, prov_filter, cli_filter,
                          safe_mode, cal_available)
    IN  /\ tbl.name \in {"providers", "clients"}
        /\ HasKey(T, tbl.pk, row[tbl.pk]) \/ Len(T) < MaxRows
        /\ t_providers' = provs
        /\ t_clients' = clis
        /\ prov_filter' = page.prov_filter
        /\ cli_filter' = page.cli_filter
        /\ view' = page.view
        /\ events' = page.events
        /\ table_df' = page.table_df
        /\ raised' = page.raised
        /\ last' = Logged("rerun_across", tbl.name, row[tbl.pk], "", row,
                          HasKey(T, tbl.pk, row[tbl.pk]), res.ok)
        /\ UNCHANGED <<t_credentials, t_shifts, session, other_apps>>

\* another session's Delete commits to the shared database; nothing reruns this
\* session's script, so its page stays as it was rendered
OtherSessionDeletes(sid) ==
    /\ HasKey(t_shifts, "shift_id", sid)
    /\ t_shifts' = delete_by_id(t_shifts, "shift_id", sid)
    /\ last' = Logged("other_delete", "shifts", sid, sid, NoRow, TRUE, TRUE)
    /\ UNCHANGED <<t_providers, t_clients, t_credentials, session, prov_filter,
                   cli_filter, rendered, other_apps>>

\* the Calendar tab's clicked-event form, submitted: the shift's id, provider and
\* client are read from the clicked event of the rendered calendar, not from the
\* tables, and the form is built whether or not the shift is still stored
CalendarClickedEvent(i, button, prov_name_edit, cli_name_edit, start_date_edit, start_time_edit, is_24h_edit, end_date_edit, end_time_edit, shift_type_edit, notes_edit, now) ==
    /\ cal_available
    /\ raised = NoException
    /\ i \in DOMAIN events
    /\ prov_name_edit \in NameOptions(t_providers, "provider_name")
    /\ cli_name_edit \in NameOptions(t_clients, "client_name")
    /\ LET ev == events[i]
       IN  IF button = "delete"
           THEN DeleteShift(ev.shift_id)
           ELSE SaveOrDuplicate(ev.shift_id, ev.provider_id, ev.client_id,
                                button = "dup", prov_name_edit, cli_name_edit,
                                start_date_edit, start_time_edit, is_24h_edit,
                                end_date_edit, end_time_edit, shift_type_edit,
                                notes_edit, now)

SharedProviderNames == {"Ann", "Bob"}
SharedClientNames == {"Riverside", "Lakeside"}
SharedStarts == {combine(Date(2025, 1, 10), 8 * Hour), combine(Date(2025, 2, 10), 8 * Hour)}

SharedProviderRow(name) ==
    [provider_id |-> "P1", provider_name |-> name, specialty |-> "",
     preferred_shift_start |-> parse_time("08:00"),
     preferred_shift_end |-> parse_time("16:00"), preferred_days |-> "Mon,Tue,Wed"]
SharedClientRow(name) == [client_id |-> "C1", client_name |-> name, location |-> ""]

\* a database with one provider, one client and 0..MaxViewRows shifts of theirs
InitShared ==
    /\ \E n \in SharedProviderNames :
          t_providers = <<FullRow(providers, SharedProviderRow(n))>>
    /\ \E n \in SharedClientNames :
          t_clients = <<FullRow(clients, SharedClientRow(n))>>
    /\ t_credentials = <<>>
    /\ \E k \in 0..MaxViewRows : \E ss \in [1..k -> SharedStarts] :
          t_shifts = [i \in 1..k |->
                         StoredShift(i, [start |-> ss[i], dur |-> 8 * Hour, ty |-> "Day"])]
    /\ selected_year \in Years
    /\ selected_month \in Months
    /\ prov_filter = ALL
    /\ cli_filter = ALL
    /\ safe_mode = TRUE
    /\ cal_available = TRUE
    /\ view = VisibleShifts(t_shifts, t_providers, t_clients, selected_year,
                            selected_month, prov_filter, cli_filter)
    /\ events = BuildEvents(view, t_providers, t_clients)
    /\ table_df = view
    /\ raised = NoException
    /\ last = NoLog
    /\ OtherAppsIdle

\* the clicked-event form, filled in for a 24-hour shift on 10 January 2025
SharedEdits ==
    {f \in EditInputs({Date(2025, 1, 10)}, {8 * Hour}, ShiftTypes, {""}) : f.h}

NextShared ==
    \/ \E y \in Years, m \in Months : SetMonth(y, m)
    \/ \E name \in {ALL} \cup SharedProviderNames : ChooseProviderFilter(name)
    \/ \E name \in {ALL} \cup SharedClientNames : ChooseClientFilter(name)
    \/ ToggleSafeMode
    \/ \E n \in SharedProviderNames : RerunAcrossSave(providers, SharedProviderRow(n))
    \/ \E n \in SharedClientNames : RerunAcrossSave(clients, SharedClientRow(n))
    \/ \E i \in DOMAIN t_shifts : OtherSessionDeletes(t_shifts[i].shift_id)
    \/ \E i \in DOMAIN events, pn \in SharedProviderNames, cn \in SharedClientNames,
          f \in SharedEdits :
          CalendarClickedEvent(i, f.button, pn, cn, f.sd, f.st, f.h, f.ed, f.et,
                               f.ty, f.nt, f.now)

SpecShared == InitShared /\ [][NextShared]_vars

\* C11 (as claimed): in safe mode, a provider (client) filter that names no
\* existing provider (client) does not narrow the shifts, and the session's
\* filter is "(All)" again when the page is rendered: no rendered page of a safe
\* session has a filter that names nobody, and the reset raises nothing.
\* (The page is the one the session's last run rendered: a state in which another
\* session has just deleted a shift is not a rendered page.)
C11_SafeModeResetsFilter ==
    (safe_mode /\ last.op # "other_delete") =>
        /\ ~Unmatched(t_providers, "provider_name", prov_filter)
        /\ ~Unmatched(t_clients, "client_name", cli_filter)
        /\ raised # StreamlitAPIException
        /\ view = MonthFilter(t_shifts, month_range(selected_year, selected_month).first,
                              month_range(selected_year, selected_month).last)
              \/ (prov_filter # ALL \/ cli_filter # ALL)

\* C12 (as claimed): with safe mode off, a provider or client filter that names
\* no existing provider or client leaves no shift visible.
C12_StrictModeShowsNothing ==
    (/\ ~safe_mode
     /\ last.op # "other_delete"
     /\ \/ Unmatched(t_providers, "provider_name", prov_filter)
        \/ Unmatched(t_clients, "client_name", cli_filter))
    => view = <<>>

\* C18: a Save changes or a Delete aimed at a shift id that is no longer stored
\* is a no-op; in particular Save changes on the calendar's clicked-event form
\* of a shift deleted since the page was rendered creates no shift row.
C18_MissingTargetIsNoOp ==
    [][(last'.op \in {"save", "delete"} /\ ~HasKey(t_shifts, "shift_id", last'.src))
          => t_shifts' = t_shifts]_vars

-----------------------------------------------------------------------------
(* SpecImport: the forms and the CSV import of the Upload/Download tab.    *)

\* mutant of InsertCredential: a pair that is already stored is not stored again
InsertCredential_Upsert(T, row) ==
    IF /\ DOMAIN row \subseteq credentials.cols
       /\ credentials.notnull \subseteq DOMAIN row
       /\ NotNullOK(credentials, row)
    THEN [ok |-> TRUE,
          rows |-> IF \E i \in DOMAIN T : /\ T[i].provider_id = row.provider_id
                                          /\ T[i].client_id = row.client_id
                   THEN T
                   ELSE Append(T, [id |-> Len(T) + 1, provider_id |-> row.provider_id,
                                   client_id |-> row.client_id])]
    ELSE [ok |-> FALSE, rows |-> T]

\* credentials.insert().values(provider_id=..., client_id=...)
InsertCredential(T, row) ==
    IF /\ DOMAIN row \subseteq credentials.cols
       /\ credentials.notnull \subseteq DOMAIN row
       /\ NotNullOK(credentials, row)
    THEN [ok |-> TRUE,
          rows |-> Append(T, [id |-> Len(T) + 1, provider_id |-> row.provider_id,
                              client_id |-> row.client_id])]
    ELSE [ok |-> FALSE, rows |-> T]

\* the Credentials tab's form "Add Credential", submitted
AddCredential(prov_name, cli_name) ==
    LET provider_id == FirstId(t_providers, "provider_name", "provider_id", prov_name)
        client_id == FirstId(t_clients, "client_name", "client_id", cli_name)
        row == [provider_id |-> provider_id, client_id |-> client_id]
        res == InsertCredential(t_credentials, row)
    IN  /\ t_providers # <<>> /\ t_clients # <<>>
        /\ prov_name \in SeqToSet(Column(t_providers, "provider_name"))
        /\ cli_name \in SeqToSet(Column(t_clients, "client_name"))
        /\ Len(t_credentials) < MaxRows
        /\ t_credentials' = res.rows
        /\ last' = Logged("add_cred", "credentials", "", "", row, FALSE, res.ok)
        /\ UNCHANGED <<t_providers, t_clients, t_shifts, session>>
        /\ Rerun(prov_filter, cli_filter)

\* pd.read_csv and r.to_dict(): a cell of text is a str, an empty cell is NaN;
\* a NaN bound to a String column is stored as NULL
read_cell(tbl, c, text) ==
    IF c \in DOMAIN tbl.typed
    THEN IF text = "" THEN PyNaN ELSE PyStr(text)
    ELSE IF text = "" THEN NULL ELSE text

read_csv(tbl, file) ==
    [i \in DOMAIN file |-> [c \in DOMAIN file[i] |-> read_cell(tbl, c, file[i][c])]]

\* `for _, r in df.iterrows(): upsert(...)` from row i on, inside one transaction
RECURSIVE UpsertRows(_, _, _, _)
UpsertRows(T, tbl, rows, i) ==
    IF i > Len(rows) THEN [ok |-> TRUE, rows |-> T]
    ELSE LET res == upsert(T, tbl, rows[i], tbl.pk)
         IN  IF res.ok THEN UpsertRows(res.rows, tbl, rows, i + 1) ELSE res

\* conn.execute(table.insert(), df.to_dict(orient="records")), for credentials
RECURSIVE InsertRows(_, _, _)
InsertRows(T, rows, i) ==
    IF i > Len(rows) THEN [ok |-> TRUE, rows |-> T]
    ELSE LET res == InsertCredential(T, rows[i])
         IN  IF res.ok THEN InsertRows(res.rows, rows, i + 1) ELSE res

\* mutant of Transaction: every statement is committed as it is executed
Transaction_Autocommit(T, res) == res.rows

\* `with engine.begin() as conn:` around statements that took table T to
\* res.rows: commit when the block ends, roll back when an exception leaves it
Transaction(T, res) == IF res.ok THEN res.rows ELSE T

\* handle_import(label, table, key_col) with a file in the uploader: an
\* exception leaves the `with engine.begin()` block and rolls every row back
handle_import(tbl, file) ==
    LET T == CASE tbl.name = "providers" -> t_providers
               [] tbl.name = "clients" -> t_clients
               [] tbl.name = "credentials" -> t_credentials
               [] OTHER -> t_shifts
        df == read_csv(tbl, file)
        res == IF tbl.name = "credentials" THEN InsertRows(T, df, 1)
               ELSE UpsertRows(T, tbl, df, 1)
        after == Transaction(T, res)
    IN  /\ Len(after) <= MaxRows
        /\ t_providers' = IF tbl.name = "providers" THEN after ELSE t_providers
        /\ t_clients' = IF tbl.name = "clients" THEN after ELSE t_clients
        /\ t_credentials' = IF tbl.name = "credentials" THEN after ELSE t_credentials
        /\ t_shifts' = IF tbl.name = "shifts" THEN after ELSE t_shifts
        /\ last' = Logged("import", tbl.name, "", "", [file |-> file], FALSE, res.ok)
        /\ UNCHANGED session
        /\ Rerun(prov_filter, cli_filter)

\* ORDER BY shifts.start_datetime: the rows by ascending start, rows with the
\* same start in the order of the table
RECURSIVE OrderByStart(_)
OrderByStart(rows) ==
    IF rows = <<>> THEN <<>>
    ELSE LET m == CHOOSE i \in DOMAIN rows :
                    \A j \in DOMAIN rows :
                        \/ rows[i].start_datetime < rows[j].start_datetime
                        \/ rows[i].start_datetime = rows[j].start_datetime /\ i <= j
             others == [k \in 1..(Len(rows) - 1) |-> IF k < m THEN rows[k] ELSE rows[k + 1]]
         IN  <<rows[m]>> \o OrderByStart(others)

\* the SELECT of export_qgenda_csv: shifts JOIN providers JOIN clients (inner
\* joins on the ids), WHERE start >= start_dt AND end <= end_dt, ORDER BY start,
\* and the rename to the columns of the file
ExportQuery(sh, provs, clis, start_dt, end_dt) ==
    LET joined == SelectSeq(sh, LAMBDA r :
                      /\ \E i \in DOMAIN provs : provs[i].provider_id = r.provider_id
                      /\ \E i \in DOMAIN clis : clis[i].client_id = r.client_id
                      /\ r.start_datetime >= start_dt
                      /\ r.end_datetime <= end_dt)
        ordered == OrderByStart(joined)
    IN  [i \in DOMAIN ordered |->
            LET r == ordered[i]
                c == RowOf(clis, "client_id", r.client_id)
            IN  [ProviderID |-> r.provider_id,
                 ProviderName |-> RowOf(provs, "provider_id", r.provider_id).provider_name,
                 ClientID |-> r.client_id, ClientName |-> c.client_name,
                 Location |-> c.location, StartDateTime |-> r.start_datetime,
                 EndDateTime |-> r.end_datetime, ShiftType |-> r.shift_type,
                 Notes |-> r.notes]]

AttributeError == "AttributeError"

\* export_qgenda_csv(conn, start_dt, end_dt): the query is executed as
\* engine.begin().execute(q); engine.begin() returns a context manager, which
\* has no execute, so the call raises before any row is read or any file written
export_qgenda_csv(sh, provs, clis, start_dt, end_dt) ==
    [raised |-> AttributeError, query |-> ExportQuery(sh, provs, clis, start_dt, end_dt),
     file |-> <<>>]

\* time.max, to the second
TimeMax == Day - 1

\* the Calendar tab's button "Export QGenda-friendly CSV", with the two dates
Export(start, end) ==
    LET out == export_qgenda_csv(t_shifts, t_providers, t_clients,
                                 combine(start, 0), combine(end, TimeMax))
    IN  /\ raised = NoException \/ (raised = IndexError /\ cal_available)
        /\ last' = Logged("export", "shifts", "", "",
                          [start |-> combine(start, 0), end |-> combine(end, TimeMax),
                           file |-> out.file],
                          FALSE, out.raised = NoException)
        /\ UNCHANGED <<store, session, prov_filter, cli_filter, rendered, other_apps>>

ExportDates == {Date(2025, 1, 1), Date(2025, 1, 31)}

\* the files put in the uploaders: the providers template's columns, and the
\* two required ones alone
ProvidersFiles ==
    {<<[provider_id |-> "P1", provider_name |-> "Ann", specialty |-> "Cardiology",
        preferred_shift_start |-> "08:00", preferred_shift_end |-> "16:00",
        preferred_days |-> "Mon,Tue,Wed"]>>,
     <<[provider_id |-> "P1", provider_name |-> "Ann"]>>}

\* the clients template's columns, with and without a location
ClientsFiles ==
    {<<[client_id |-> "C1", client_name |-> "Riverside", location |-> loc]>> :
        loc \in {"Austin, TX", ""}}

CredentialsFiles == {<<[provider_id |-> "P1", client_id |-> "C1"]>>}

\* the shifts template's columns, and a file that moves a shift to provider P2
ShiftsFiles ==
    {<<[shift_id |-> generate_id("S", 1), provider_id |-> "P1", client_id |-> "C1",
        start_datetime |-> "2025-01-10 08:00", end_datetime |-> "2025-01-10 16:00",
        shift_type |-> "Day", notes |-> ""]>>,
     <<[shift_id |-> generate_id("S", 1), provider_id |-> "P2"]>>}

\* a new database, with or without the calendar component installed
InitImport ==
    /\ t_providers = <<>>
    /\ t_clients = <<>>
    /\ t_credentials = <<>>
    /\ t_shifts = <<>>
    /\ selected_year = 2025
    /\ selected_month = 1
    /\ prov_filter = ALL
    /\ cli_filter = ALL
    /\ safe_mode = TRUE
    /\ cal_available \in BOOLEAN
    /\ view = <<>>
    /\ events = <<>>
    /\ table_df = <<>>
    /\ raised = NoException
    /\ last = NoLog
    /\ OtherAppsIdle

NextImport ==
    \/ \E pname \in ProviderNames :
          SaveProvider("P1", pname, "", "08:00", "16:00", "Mon,Tue,Wed")
    \/ \E cname \in ClientNames : SaveClient("C1", cname, "")
    \/ \E pn \in ProviderNames, cn \in ClientNames, h \in BOOLEAN, now \in Clock :
          QuickAdd(pn, cn, Date(2025, 1, 31), 0, h, 8 * Hour, "Day", "", now)
    \/ \E pn \in ProviderNames, cn \in ClientNames : AddCredential(pn, cn)
    \/ \E file \in ProvidersFiles : handle_import(providers, file)
    \/ \E file \in ClientsFiles : handle_import(clients, file)
    \/ \E file \in CredentialsFiles : handle_import(credentials, file)
    \/ \E file \in ShiftsFiles : handle_import(shifts, file)
    \/ \E start \in ExportDates, end \in ExportDates : Export(start, end)

SpecImport == InitImport /\ [][NextImport]_vars

\* C13 (as claimed): a shift whose provider_id is no provider's is still served:
\* it is in the month's view when the month filter admits it, its calendar
\* event is titled "Unknown Provider @ ...", and drawing the page (calendar or
\* month table, and the inline editor of the Shifts tab) raises nothing.
C13_DanglingProviderTolerated ==
    \A i \in DOMAIN t_shifts :
        ~HasKey(t_providers, "provider_id", t_shifts[i].provider_id) =>
            /\ raised = NoException
            /\ MonthFilter(<<t_shifts[i]>>,
                           month_range(selected_year, selected_month).first,
                           month_range(selected_year, selected_month).last) # <<>>
                  => \E j \in DOMAIN view : view[j] = t_shifts[i]
            /\ \A j \in DOMAIN events :
                  events[j].shift_id = t_shifts[i].shift_id =>
                      \E rest \in {" @ Riverside (Day)", " @ Unknown Client (Day)"} :
                          events[j].title = "Unknown Provider" \o rest

\* C14 (as claimed): no two credential rows have the same provider and client.
C14_OneCredentialPerPair ==
    \A i, j \in DOMAIN t_credentials :
        (/\ t_credentials[i].provider_id = t_credentials[j].provider_id
         /\ t_credentials[i].client_id = t_credentials[j].client_id) => i = j

InRange(r, start_dt, end_dt) == r.start_datetime >= start_dt /\ r.end_datetime <= end_dt

\* C15 (as claimed): the export of a range goes through and its file has one row
\* for each stored shift that starts at or after the range's start and ends at or
\* before its end, whether or not its provider and client exist, and no other
\* row, by ascending start.
C15_ExportHoldsShiftsInRange ==
    last.op = "export" =>
        LET file == last.row.file
            wanted == {i \in DOMAIN t_shifts : InRange(t_shifts[i], last.row.start, last.row.end)}
        IN  /\ last.ok
            /\ Len(file) = Cardinality(wanted)
            /\ \A i \in wanted : \E k \in DOMAIN file :
                  /\ file[k].ProviderID = t_shifts[i].provider_id
                  /\ file[k].ClientID = t_shifts[i].client_id
                  /\ file[k].StartDateTime = t_shifts[i].start_datetime
                  /\ file[k].EndDateTime = t_shifts[i].end_datetime
            /\ \A k, l \in DOMAIN file :
                  k < l => file[k].StartDateTime <= file[l].StartDateTime

\* C20 (as claimed): a CSV import into providers, clients or shifts upserts
\* each row on the table's primary key, so it keeps every stored key, importing
\* the file that was imported last changes nothing, and importing a file whose
\* rows are the stored records, field for field, changes nothing. (A stored
\* NULL and an empty text are both an empty cell of the file.)
C20_ImportIdempotentAndKeyPreserving ==
    [][(last'.op = "import" /\ last'.tbl \in {"providers", "clients", "shifts"}) =>
          LET tbl == CASE last'.tbl = "providers" -> providers
                       [] last'.tbl = "clients" -> clients
                       [] OTHER -> shifts
              before == TableNow(tbl.name)
              after == TableNext(tbl.name)
              file == last'.row.file
              sameCell(i, c) ==
                  IF c \in DOMAIN tbl.typed
                  THEN before[i][c] = NullT /\ file[i][c] = ""
                  ELSE file[i][c] = IF before[i][c] = NULL THEN "" ELSE before[i][c]
              sameAsStored ==
                  /\ Len(file) = Len(before)
                  /\ \A i \in DOMAIN file : \A c \in tbl.cols :
                        c \in DOMAIN file[i] /\ sameCell(i, c)
          IN  /\ \A i \in DOMAIN before : HasKey(after, tbl.pk, before[i][tbl.pk])
              /\ last'.repeat => store' = store
              /\ sameAsStored => store' = store]_vars

-----------------------------------------------------------------------------
(* SpecCsv: CSV files of one and two rows, imported into a new database.   *)

\* clients files: one client, two clients, and a second row without its name
CsvClientsFiles ==
    {<<[client_id |-> "C1", client_name |-> "Riverside", location |-> "Austin, TX"]>>,
     <<[client_id |-> "C1", client_name |-> "Riverside", location |-> "Austin, TX"],
       [client_id |-> "C2", client_name |-> "Lakeside", location |-> ""]>>,
     <<[client_id |-> "C2", client_name |-> "Lakeside", location |-> "Dallas, TX"],
       [client_id |-> "C1", client_name |-> "", location |-> "Austin, TX"]>>}

\* providers files with the two required columns: one provider, and a second
\* row without its id
CsvProvidersFiles ==
    {<<[provider_id |-> "P1", provider_name |-> "Ann"]>>,
     <<[provider_id |-> "P2", provider_name |-> "Bob"],
       [provider_id |-> "", provider_name |-> "Ann"]>>}

\* credentials files: one pair, the same pair twice, and a second row without
\* its client
CsvCredentialsFiles ==
    {<<[provider_id |-> "P1", client_id |-> "C1"]>>,
     <<[provider_id |-> "P1", client_id |-> "C1"],
       [provider_id |-> "P1", client_id |-> "C1"]>>,
     <<[provider_id |-> "P1", client_id |-> "C2"],
       [provider_id |-> "P1", client_id |-> ""]>>}

NextCsv ==
    \/ \E file \in CsvProvidersFiles : handle_import(providers, file)
    \/ \E file \in CsvClientsFiles : handle_import(clients, file)
    \/ \E file \in CsvCredentialsFiles : handle_import(credentials, file)

SpecCsv == InitImport /\ [][NextCsv]_vars

C22_FailedImportWritesNothing ==
    [][(last'.op = "import" /\ ~last'.ok) => store' = store]_vars

\* C22's case: the import of a clients file failed at its second row, and the
\* client of its first row, which was not stored before, is not stored
C22_Witness ==
    /\ last.op = "import" /\ last.tbl = "clients" /\ ~last.ok
    /\ Len(last.row.file) = 2
    /\ last.row.file[1].client_name # ""
    /\ ~HasKey(t_clients, "client_id", last.row.file[1].client_id)

-----------------------------------------------------------------------------
(* SpecForms: the forms of one session, from an empty database.            *)

FormsProviderIds == {"P1", ""}
FormsProviderNames == {"Ann", ""}
FormsClientIds == {"C1", ""}
FormsClientNames == {"Riverside", ""}
FormsDates == {Date(2025, 1, 31)}
FormsTimes == {0, 8 * Hour}

\* the edit forms, filled in for a 24-hour shift that starts at one of FormsTimes
FormsEdits == {f \in EditInputs(FormsDates, FormsTimes, ShiftTypes, {""}) : f.h}

NextForms ==
    \/ \E pid \in FormsProviderIds, pname \in FormsProviderNames, spec \in {"Cardiology"} :
          SaveProvider(pid, pname, spec, "08:00", "16:00", "Mon,Tue,Wed")
    \/ \E cid \in FormsClientIds, cname \in FormsClientNames, loc \in {"Austin, TX"} :
          SaveClient(cid, cname, loc)
    \/ \E pn \in ProviderNames, cn \in ClientNames, now \in Clock :
          QuickAdd(pn, cn, Date(2025, 1, 31), 0, TRUE, 0, "Day", "", now)
    \/ \E i \in DOMAIN t_shifts, pn \in ProviderNames, cn \in ClientNames,
          f \in FormsEdits :
          CalendarFallback(t_shifts[i].shift_id, f.button, pn, cn, f.sd, f.st, f.h,
                           f.ed, f.et, f.ty, f.nt, f.now)
    \/ \E i \in DOMAIN t_shifts, pn \in ProviderNames, cn \in ClientNames,
          f \in FormsEdits :
          InlineEditor(t_shifts[i].shift_id, f.button, pn, cn, f.sd, f.st, f.h,
                       f.ed, f.et, f.ty, f.nt, f.now)

SpecForms == Init /\ [][NextForms]_vars

\* C16: Save Provider (Save Client) with an empty id or an empty name is refused
\* and leaves the four tables as they were; with both filled in, the row is
\* upserted: it is appended when its id is new, it replaces the row with its id
\* otherwise, and every other row and table stays as it was.
C16_SaveRequiresIdAndName ==
    [][last'.op \in {"save_provider", "save_client"} =>
          LET prov == last'.op = "save_provider"
              tbl == IF prov THEN providers ELSE clients
              before == IF prov THEN t_providers ELSE t_clients
              after == IF prov THEN t_providers' ELSE t_clients'
              row == last'.row
              name == IF prov THEN row.provider_name ELSE row.client_name
          IN  IF row[tbl.pk] = "" \/ name = ""
              THEN ~last'.ok /\ store' = store
              ELSE /\ last'.ok
                   /\ IF HasKey(before, tbl.pk, row[tbl.pk])
                      THEN after = [i \in DOMAIN before |->
                                       IF before[i][tbl.pk] = row[tbl.pk]
                                       THEN FullRow(tbl, row) ELSE before[i]]
                      ELSE after = Append(before, FullRow(tbl, row))
                   /\ IF prov THEN t_clients' = t_clients ELSE t_providers' = t_providers
                   /\ UNCHANGED <<t_credentials, t_shifts>>]_vars

\* C16's case: a Save Provider with an id and no name has been refused while
\* providers are stored
C16_Witness ==
    /\ last.op = "save_provider" /\ ~last.ok
    /\ last.row.provider_id # "" /\ last.row.provider_name = ""
    /\ t_providers # <<>>

\* C17: Save changes on a stored shift writes under the shift's own id: the
\* stored ids and their order stay as they were, the row with that id becomes
\* the row of the form, and every other shift and table stays as it was.
C17_SaveKeepsIdAndOtherShifts ==
    [][(last'.op = "save" /\ HasKey(t_shifts, "shift_id", last'.src)) =>
          /\ last'.ok /\ last'.key = last'.src
          /\ Column(t_shifts', "shift_id") = Column(t_shifts, "shift_id")
          /\ \A i \in DOMAIN t_shifts :
                t_shifts'[i] = IF t_shifts[i].shift_id = last'.src
                               THEN FullRow(shifts, last'.row) ELSE t_shifts[i]
          /\ UNCHANGED <<t_providers, t_clients, t_credentials>>]_vars

\* C17's case: Save changes has rewritten one of two stored shifts
C17_Witness ==
    /\ last.op = "save" /\ last.ok /\ Len(t_shifts) = 2
    /\ RowOf(t_shifts, "shift_id", last.key) = FullRow(shifts, last.row)
    /\ \E i \in DOMAIN t_shifts : t_shifts[i] # FullRow(shifts, last.row)

-----------------------------------------------------------------------------
(* SpecSession: every mutation of one session, from an empty database.     *)

NextSession ==
    \/ NextForms
    \/ \E pn \in ProviderNames, cn \in ClientNames : AddCredential(pn, cn)
    \/ handle_import(clients, <<[client_id |-> "C1", client_name |-> "Riverside",
                                 location |-> "Austin, TX"]>>)
    \/ handle_import(credentials, <<[provider_id |-> "P1", client_id |-> "C1"]>>)

SpecSession == Init /\ [][NextSession]_vars

\* C23: every page that is rendered to completion shows the store as it is,
\* every committed write of the session included: the visible shifts, the
\* calendar events and the Shifts table are those of the four tables as the
\* last mutation (add, save, duplicate, delete, save provider or client, add
\* credential, CSV import) left them.
C23_PageShowsCommittedStore ==
    raised = NoException =>
        /\ view = VisibleShifts(t_shifts, t_providers, t_clients, selected_year,
                                selected_month, prov_filter, cli_filter)
        /\ events = BuildEvents(view, t_providers, t_clients)
        /\ table_df = view

\* C23's case: the page rendered after a shift was added, saved or duplicated
\* shows the row that was written
C23_Witness ==
    /\ last.op \in {"add", "save", "dup"} /\ last.ok
    /\ raised = NoException
    /\ \E i \in DOMAIN view : view[i] = FullRow(shifts, last.row)

-----------------------------------------------------------------------------
(* SpecPortal: the Shifts page of the JSON-file portal                     *)
(* (src/streamlit_app.py), on data files that may name a provider or a     *)
(* site that is not stored.                                                 *)

\* the SQLite app is not running: a new database and no page
SqliteIdle ==
    /\ t_providers = <<>>
    /\ t_clients = <<>>
    /\ t_credentials = <<>>
    /\ t_shifts = <<>>
    /\ selected_year = 2025
    /\ selected_month = 1
    /\ prov_filter = ALL
    /\ cli_filter = ALL
    /\ safe_mode = TRUE
    /\ cal_available = TRUE
    /\ view = <<>>
    /\ events = <<>>
    /\ table_df = <<>>
    /\ raised = NoException

\* provider_id of an unassigned shift (JSON null); stored ids are 1 and up
None == 0

StopIteration == "StopIteration"

\* the texts shown for a provider: "Unassigned", "Unknown Provider", and
\* f"{p['name']} ({p['type']})", kept as the pair it is made of
Unassigned == <<"Unassigned">>
UnknownProvider == <<"Unknown Provider">>
ProviderLabel(p) == <<p.name, p.type>>

\* the first index of a list whose element has the id; 0 when there is none
IndexOfId(list, id) ==
    IF \E i \in DOMAIN list : list[i].id = id
    THEN CHOOSE i \in DOMAIN list :
            list[i].id = id /\ \A k \in DOMAIN list : list[k].id = id => i <= k
    ELSE 0

get_site_name(site_id, sites) ==
    IF IndexOfId(sites, site_id) # 0 THEN sites[IndexOfId(sites, site_id)].name
    ELSE "Unknown Site"

get_provider_display(provider_id, provs) ==
    IF provider_id = None THEN Unassigned
    ELSE IF IndexOfId(provs, provider_id) # 0
         THEN ProviderLabel(provs[IndexOfId(provs, provider_id)])
         ELSE UnknownProvider

\* provider_options of the two forms
provider_options(provs) == {Unassigned} \cup {ProviderLabel(provs[i]) : i \in DOMAIN provs}

\* next(p for p in providers if label(p) == choice)["id"], None for "Unassigned"
ChosenProviderId(provs, choice) ==
    IF choice = Unassigned THEN None
    ELSE LET i == CHOOSE i \in DOMAIN provs :
                     /\ ProviderLabel(provs[i]) = choice
                     /\ \A k \in DOMAIN provs : ProviderLabel(provs[k]) = choice => i <= k
         IN  provs[i].id

\* the option the edit form's provider selectbox starts on (default_idx)
DefaultChoice(provs, shift) ==
    IF shift.provider_id = None \/ IndexOfId(provs, shift.provider_id) = 0
    THEN Unassigned
    ELSE ProviderLabel(provs[IndexOfId(provs, shift.provider_id)])

\* page_shifts(providers, sites, shifts) with the shift `sel` chosen in "Select
\* Shift" (the first shift when sel is not stored): the table of shifts, and
\* the edit form, whose Site selectbox takes its index from a next() without
\* a default
page_shifts(provs, sites, shs, sel) ==
    LET rows == [i \in DOMAIN shs |->
                    [ID |-> shs[i].id, Site |-> get_site_name(shs[i].site_id, sites),
                     Provider |-> get_provider_display(shs[i].provider_id, provs)]]
        selected == IF shs = <<>> THEN None
                    ELSE IF IndexOfId(shs, sel) # 0 THEN sel ELSE shs[1].id
        selected_shift == shs[IndexOfId(shs, selected)]
    IN  [rows |-> rows, selected |-> selected,
         raised |-> IF shs # <<>> /\ IndexOfId(sites, selected_shift.site_id) = 0
                    THEN StopIteration ELSE NoException]

\* mutant of new_id: the number of shifts plus one
new_id_Count(shs) == Len(shs) + 1

\* max([s["id"] for s in shifts], default=0) + 1
new_id(shs) ==
    IF shs = <<>> THEN 1
    ELSE LET ids == {shs[i].id : i \in DOMAIN shs}
         IN  (CHOOSE m \in ids : \A k \in ids : k <= m) + 1

\* the form "Create New Shift", submitted with every field filled in
create_shift_form(site_choice, date, start_time, end_time, provider_choice) ==
    LET new_shift == [id |-> new_id(j_shifts), site_id |-> j_sites[site_choice].id,
                      provider_id |-> ChosenProviderId(j_providers, provider_choice),
                      date |-> date, start_time |-> start_time, end_time |-> end_time]
    IN  /\ site_choice \in DOMAIN j_sites
        /\ provider_choice \in provider_options(j_providers)
        /\ Len(j_shifts) < MaxRows
        /\ new_id(j_shifts) <= MaxShiftId
        /\ j_shifts' = Append(j_shifts, new_shift)
        /\ j_page' = page_shifts(j_providers, j_sites, j_shifts', j_page.selected)
        /\ last' = Logged("create", "j_shifts", "", "", new_shift, FALSE, TRUE)
        /\ UNCHANGED <<sqlite_app, calculator, j_providers, j_sites>>

\* another shift is picked in "Select Shift"
select_shift(id) ==
    /\ IndexOfId(j_shifts, id) # 0
    /\ id # j_page.selected
    /\ j_page' = page_shifts(j_providers, j_sites, j_shifts, id)
    /\ last' = Logged("select", "j_shifts", "", "", [id |-> id], FALSE, TRUE)
    /\ UNCHANGED <<sqlite_app, calculator, j_providers, j_sites, j_shifts>>

\* "Save Changes" of the edit form, which was drawn down to its buttons; hit
\* says that the provider selectbox was left on the option it started on
save_btn(edit_site, edit_date, edit_start_time, edit_end_time, edit_provider_choice) ==
    LET selected_shift == j_shifts[IndexOfId(j_shifts, j_page.selected)]
        provider_id == ChosenProviderId(j_providers, edit_provider_choice)
    IN  /\ j_shifts # <<>>
        /\ j_page.raised = NoException
        /\ edit_site \in DOMAIN j_sites
        /\ edit_provider_choice \in provider_options(j_providers)
        /\ j_shifts' = [i \in DOMAIN j_shifts |->
                           IF j_shifts[i].id = selected_shift.id
                           THEN [id |-> j_shifts[i].id, site_id |-> j_sites[edit_site].id,
                                 provider_id |-> provider_id, date |-> edit_date,
                                 start_time |-> edit_start_time,
                                 end_time |-> edit_end_time]
                           ELSE j_shifts[i]]
        /\ j_page' = page_shifts(j_providers, j_sites, j_shifts', j_page.selected)
        /\ last' = Logged("save_changes", "j_shifts", "", "", selected_shift,
                          edit_provider_choice = DefaultChoice(j_providers, selected_shift),
                          TRUE)
        /\ UNCHANGED <<sqlite_app, calculator, j_providers, j_sites>>

\* "Delete Shift" of the edit form
delete_btn ==
    LET selected_shift == j_shifts[IndexOfId(j_shifts, j_page.selected)]
    IN  /\ j_shifts # <<>>
        /\ j_page.raised = NoException
        /\ j_shifts' = SelectSeq(j_shifts, LAMBDA s : s.id # selected_shift.id)
        /\ j_page' = page_shifts(j_providers, j_sites, j_shifts', j_page.selected)
        /\ last' = Logged("delete_shift", "j_shifts", "", "", selected_shift, TRUE, TRUE)
        /\ UNCHANGED <<sqlite_app, calculator, j_providers, j_sites>>

\* the data files: one provider or two; one site;
\* 0..MaxViewRows shifts with ids 1, 2, ..., each at site 1 or at a site that
\* is not stored (9), unassigned, with provider 1 or with one not stored (9)
PortalProviderFiles ==
    {<<[id |-> 1, name |-> "Ann", type |-> "Hospitalist"]>>,
     <<[id |-> 1, name |-> "Ann", type |-> "Hospitalist"],
       [id |-> 2, name |-> "Bob", type |-> "Nocturnist"]>>}
PortalSiteFiles == {<<[id |-> 1, name |-> "Riverside"]>>}
PortalDates == {"2025-01-10"}
PortalTimes == {"08:00"}
PortalShiftFiles ==
    UNION {[1..n -> [site_id : {1, 9}, provider_id : {None, 1, 9}]] : n \in 0..MaxViewRows}

InitPortal ==
    /\ SqliteIdle
    /\ CalculatorIdle
    /\ last = NoLog
    /\ j_providers \in PortalProviderFiles
    /\ j_sites \in PortalSiteFiles
    /\ \E f \in PortalShiftFiles :
          j_shifts = [i \in DOMAIN f |->
                         [id |-> i, site_id |-> f[i].site_id,
                          provider_id |-> f[i].provider_id, date |-> "2025-01-10",
                          start_time |-> "08:00", end_time |-> "16:00"]]
    /\ j_page = page_shifts(j_providers, j_sites, j_shifts, None)

NextPortal ==
    \/ \E site \in DOMAIN j_sites, d \in PortalDates, t \in PortalTimes,
          choice \in provider_options(j_providers) :
          create_shift_form(site, d, t, "16:00", choice)
    \/ \E i \in DOMAIN j_shifts : select_shift(j_shifts[i].id)
    \/ \E site \in DOMAIN j_sites, d \in PortalDates, t \in PortalTimes,
          choice \in provider_options(j_providers) :
          save_btn(site, d, t, "16:00", choice)
    \/ delete_btn

SpecPortal == InitPortal /\ [][NextPortal]_vars

\* C24 (as claimed): a shift of the JSON-file portal whose provider or site is
\* not stored is tolerated: the list shows it as "Unknown Provider" or
\* "Unknown Site", the edit form of whichever shift is selected is drawn without
\* an exception, and Save Changes with the provider selectbox left as it was
\* keeps the provider_id of such a shift.
C24_PortalToleratesDanglingShift ==
    /\ \A i \in DOMAIN j_shifts :
          /\ (j_shifts[i].provider_id # None
                 /\ IndexOfId(j_providers, j_shifts[i].provider_id) = 0)
             => j_page.rows[i].Provider = UnknownProvider
          /\ IndexOfId(j_sites, j_shifts[i].site_id) = 0
             => j_page.rows[i].Site = "Unknown Site"
    /\ j_page.raised = NoException
    /\ (/\ last.op = "save_changes" /\ last.hit
        /\ last.row.provider_id # None
        /\ IndexOfId(j_providers, last.row.provider_id) = 0)
       => j_shifts[IndexOfId(j_shifts, last.row.id)].provider_id = last.row.provider_id

\* C28: the ids of the portal's stored shifts are pairwise distinct after every
\* Create Shift, Save Changes and Delete Shift: a created shift is appended with
\* the largest stored id plus one (1 when no shift is stored), Save Changes
\* keeps every id and every shift but the selected one, and Delete Shift
\* removes the selected shift and nothing else.
C28_PortalShiftIdsDistinct ==
    [][/\ \A i, k \in DOMAIN j_shifts' : j_shifts'[i].id = j_shifts'[k].id => i = k
       /\ last'.op = "create" =>
             /\ j_shifts' = Append(j_shifts, last'.row)
             /\ \A i \in DOMAIN j_shifts : j_shifts[i].id < last'.row.id
             /\ IF j_shifts = <<>> THEN last'.row.id = 1
                ELSE \E i \in DOMAIN j_shifts : last'.row.id = j_shifts[i].id + 1
       /\ last'.op = "save_changes" =>
             /\ Len(j_shifts') = Len(j_shifts)
             /\ \A i \in DOMAIN j_shifts :
                   /\ j_shifts'[i].id = j_shifts[i].id
                   /\ j_shifts[i].id # last'.row.id => j_shifts'[i] = j_shifts[i]
       /\ last'.op = "delete_shift" =>
             /\ j_shifts' = SelectSeq(j_shifts, LAMBDA s : s.id # last'.row.id)
             /\ Len(j_shifts') = Len(j_shifts) - 1]_vars

\* C28's case: a shift was created after a shift with a smaller id had been
\* deleted, so its id is above the number of shifts
C28_Witness ==
    /\ last.op = "create"
    /\ Len(j_shifts) = 2
    /\ last.row.id = 3


(***************************************************************************)
(* The ROI calculator (src/multi_streamlined_roi_app.py): a single script  *)
(* that reads its widgets and computes the shift summary on every run.     *)
(* Only the widgets that feed "Beds Staffed This Shift" are modelled.      *)
(***************************************************************************)

\* values entered in "Total Beds in Unit" (min_value=1) and set on the two
\* sliders (0..100)
RoiBeds == {1, 12, 18, 50}
RoiOccupancy == {0, 25, 50, 58, 75, 100}
RoiLocum == {0, 8, 50, 80, 100}

\* the value the "Locum Utilization (%)" slider starts on
LocumDefault == 80

\* staffed_pct = occupancy_pct + (locum_coverage_pct if locum_toggle else 0)
staffed_pct(occ, toggle, cov) == occ + (IF toggle THEN cov ELSE 0)

\* the pairs <<beds, pct>> of the inputs above for which the double product
\* beds * (pct / 100) falls just below the whole number beds * pct / 100
FloatShort == {<<50, 58>>}

\* int(total_beds * (staffed_pct / 100)): truncation of the double product
financial_beds_covered(beds, pct) ==
    IF <<beds, pct>> \in FloatShort THEN (beds * pct) \div 100 - 1
    ELSE (beds * pct) \div 100

\* one run of the script with the given widget values
RoiRun(op, beds, occ, toggle, cov) ==
    /\ total_beds' = beds
    /\ occupancy_pct' = occ
    /\ locum_toggle' = toggle
    /\ locum_coverage_pct' = cov
    /\ beds_covered' = financial_beds_covered(beds, staffed_pct(occ, toggle, cov))
    /\ last' = Logged(op, "", "", "", NoRow, FALSE, TRUE)
    /\ UNCHANGED <<sqlite_app, portal>>

\* the number_input "Total Beds in Unit"
set_total_beds(n) ==
    /\ n >= 1
    /\ n # total_beds
    /\ RoiRun("total_beds", n, occupancy_pct, locum_toggle, locum_coverage_pct)

\* the slider "Current Staffed Bed Percentage (%)"
set_occupancy_pct(p) ==
    /\ p \in 0..100
    /\ p # occupancy_pct
    /\ RoiRun("occupancy_pct", total_beds, p, locum_toggle, locum_coverage_pct)

\* the checkbox "Use Locums?": ticked, the utilization slider appears on its
\* default; cleared, locum_coverage_pct is 0
set_locum_toggle ==
    /\ locum_toggle \in BOOLEAN
    /\ RoiRun("locum_toggle", total_beds, occupancy_pct, ~locum_toggle,
              IF locum_toggle THEN 0 ELSE LocumDefault)

\* the slider "Locum Utilization (%)", drawn only while locums are used
set_locum_coverage_pct(p) ==
    /\ locum_toggle
    /\ p \in 0..100
    /\ p # locum_coverage_pct
    /\ RoiRun("locum_coverage_pct", total_beds, occupancy_pct, locum_toggle, p)

InitRoi ==
    /\ SqliteIdle
    /\ PortalIdle
    /\ last = NoLog
    /\ CalculatorIdle

NextRoi ==
    \/ \E n \in RoiBeds : set_total_beds(n)
    \/ \E p \in RoiOccupancy : set_occupancy_pct(p)
    \/ set_locum_toggle
    \/ \E p \in RoiLocum : set_locum_coverage_pct(p)

SpecRoi == InitRoi /\ [][NextRoi]_vars

\* C29 (as claimed): for total beds of at least 1, a staffed percentage in
\* 0..100 and a locum utilization in 0..100, "Beds Staffed This Shift" lies
\* between 0 and the total beds, so "Unstaffed Beds" is never negative.
C29_BedsStaffedWithinUnit ==
    (total_beds >= 1 /\ occupancy_pct \in 0..100 /\ locum_coverage_pct \in 0..100)
        => /\ 0 <= beds_covered
           /\ beds_covered <= total_beds
           /\ total_beds - beds_covered >= 0


-----------------------------------------------------------------------------
(* SpecNames: the SQLite app on a database in which two providers or two   *)
(* clients may share a display name and a shift may have no type; the edit *)
(* forms are submitted with Save changes as they open.                     *)

\* P1 is Ann, P2 is Ann too or Bob; C1 is Riverside, C2 is Riverside too or Lakeside
NamesProviderTables ==
    {<<FullRow(providers, [provider_id |-> "P1", provider_name |-> "Ann"]),
       FullRow(providers, [provider_id |-> "P2", provider_name |-> n])>> : n \in {"Ann", "Bob"}}
NamesClientTables ==
    {<<FullRow(clients, [client_id |-> "C1", client_name |-> "Riverside"]),
       FullRow(clients, [client_id |-> "C2", client_name |-> n])>> :
        n \in {"Riverside", "Lakeside"}}

\* 0..MaxViewRows shifts on the morning of 10 January 2025, each of either
\* provider at either client, typed "Day" or untyped, 8 or 24 hours long
NamesShiftTables ==
    UNION {[1..n -> [pid : {"P1", "P2"}, cid : {"C1", "C2"}, ty : ViewTypes,
                     dur : {8 * Hour, 24 * Hour}]] : n \in 0..MaxViewRows}

NamesShift(i, c) ==
    [shift_id |-> generate_id("S", i), provider_id |-> c.pid, client_id |-> c.cid,
     start_datetime |-> combine(Date(2025, 1, 10), 8 * Hour),
     end_datetime |-> combine(Date(2025, 1, 10), 8 * Hour) + c.dur,
     shift_type |-> c.ty, notes |-> ""]

\* the option the Provider (Client) selectbox of an edit form opens on: the
\* name in the first row with the shift's id, option 0 when no row has it
DefaultName(T, idcol, namecol, id) ==
    LET hits == {i \in DOMAIN T : T[i][idcol] = id}
    IN  IF T = <<>> THEN "(none)"
        ELSE IF hits = {} THEN T[1][namecol]
        ELSE T[CHOOSE i \in hits : \A j \in hits : i <= j][namecol]

\* default_type of the clicked-event form: "Day", or the text between the last
\* "(" of the event's title and the ")" it ends with
default_type(title, provs, clis) ==
    LET pn == SeqToSet(Column(provs, "provider_name")) \cup {"Unknown Provider"}
        cn == SeqToSet(Column(clis, "client_name")) \cup {"Unknown Client"}
        tys == {ty \in ViewTypes \ {""} :
                   \E p \in pn, c \in cn : title = p \o " @ " \o c \o " (" \o ty \o ")"}
    IN  IF tys = {} THEN "Day" ELSE CHOOSE ty \in tys : TRUE

\* value or "Day" / value or "": what the text inputs of the fallback form and
\* of the inline editor open on
OrElse(value, default) == IF value \in {NULL, ""} THEN default ELSE value

\* Save changes on the clicked-event form of event i, no field touched
ClickedEventSaveUnchanged(i) ==
    /\ i \in DOMAIN events
    /\ LET ev == events[i]
       IN  CalendarClickedEvent(i, "save",
               DefaultName(t_providers, "provider_id", "provider_name", ev.provider_id),
               DefaultName(t_clients, "client_id", "client_name", ev.client_id),
               DateOf(ev.start), TimeOf(ev.start), ev.end - ev.start = 24 * Hour,
               DateOf(ev.end), TimeOf(ev.end),
               default_type(ev.title, t_providers, t_clients), ev.notes, 1)

\* Save changes on the fallback form of the Calendar tab, no field touched
FallbackSaveUnchanged(selected_id) ==
    /\ HasKey(t_shifts, "shift_id", selected_id)
    /\ LET row == RowOf(t_shifts, "shift_id", selected_id)
       IN  CalendarFallback(selected_id, "save",
               DefaultName(t_providers, "provider_id", "provider_name", row.provider_id),
               DefaultName(t_clients, "client_id", "client_name", row.client_id),
               DateOf(row.start_datetime), TimeOf(row.start_datetime),
               row.end_datetime - row.start_datetime = 24 * Hour,
               DateOf(row.end_datetime), TimeOf(row.end_datetime),
               OrElse(row.shift_type, "Day"), OrElse(row.notes, ""), 1)

\* Save changes on the inline editor of the Shifts tab, no field touched
InlineSaveUnchanged(selected_id) ==
    /\ HasKey(t_shifts, "shift_id", selected_id)
    /\ LET row == RowOf(t_shifts, "shift_id", selected_id)
       IN  InlineEditor(selected_id, "save",
               DefaultName(t_providers, "provider_id", "provider_name", row.provider_id),
               DefaultName(t_clients, "client_id", "client_name", row.client_id),
               DateOf(row.start_datetime), TimeOf(row.start_datetime),
               row.end_datetime - row.start_datetime = 24 * Hour,
               DateOf(row.end_datetime), TimeOf(row.end_datetime),
               OrElse(row.shift_type, "Day"), OrElse(row.notes, ""), 1)

InitNames ==
    /\ t_providers \in NamesProviderTables
    /\ t_clients \in NamesClientTables
    /\ t_credentials = <<>>
    /\ \E cs \in NamesShiftTables : t_shifts = [i \in DOMAIN cs |-> NamesShift(i, cs[i])]
    /\ selected_year \in Years
    /\ selected_month \in Months
    /\ prov_filter = ALL
    /\ cli_filter = ALL
    /\ safe_mode = TRUE
    /\ cal_available = TRUE
    /\ view = VisibleShifts(t_shifts, t_providers, t_clients, selected_year,
                            selected_month, prov_filter, cli_filter)
    /\ events = BuildEvents(view, t_providers, t_clients)
    /\ table_df = view
    /\ raised = NoException
    /\ last = NoLog
    /\ OtherAppsIdle

NextNames ==
    \/ \E y \in Years, m \in Months : SetMonth(y, m)
    \/ \E name \in {ALL, "Ann", "Bob"} : ChooseProviderFilter(name)
    \/ \E name \in {ALL, "Riverside", "Lakeside"} : ChooseClientFilter(name)
    \/ \E i \in DOMAIN events : ClickedEventSaveUnchanged(i)
    \/ \E i \in DOMAIN t_shifts : FallbackSaveUnchanged(t_shifts[i].shift_id)
    \/ \E i \in DOMAIN t_shifts : InlineSaveUnchanged(t_shifts[i].shift_id)

SpecNames == InitNames /\ [][NextNames]_vars

\* C25 (as claimed): Save changes on any of the three edit forms with no field
\* changed leaves the stored row identical in every column, also when two
\* providers or two clients share a display name and when shift_type is empty.
\* (Every Save changes of SpecNames is pressed on a form as it opened.)
C25_SaveUnchangedKeepsRow ==
    [][(last'.op = "save" /\ HasKey(t_shifts, "shift_id", last'.src))
          => t_shifts' = t_shifts]_vars

\* the ids of the rows of T that carry the name
IdsNamed(T, namecol, idcol, name) ==
    {T[i][idcol] : i \in {j \in DOMAIN T : T[j][namecol] = name}}

\* C26 (as claimed): when the provider filter names an existing provider, the
\* visible shifts are exactly the shifts of the month window whose provider_id
\* is the id of a provider with that display name, and likewise for the client
\* filter, also when several providers (clients) share the name.
C26_FilterShowsAllOfThatName ==
    LET mr == month_range(selected_year, selected_month)
        byMonth == MonthFilter(t_shifts, mr.first, mr.last)
    IN  (/\ prov_filter = ALL \/ HasName(t_providers, "provider_name", prov_filter)
         /\ cli_filter = ALL \/ HasName(t_clients, "client_name", cli_filter)
         /\ prov_filter # ALL \/ cli_filter # ALL)
        => view = SelectSeq(byMonth, LAMBDA r :
                      /\ prov_filter = ALL
                            \/ r.provider_id \in IdsNamed(t_providers, "provider_name",
                                                           "provider_id", prov_filter)
                      /\ cli_filter = ALL
                            \/ r.client_id \in IdsNamed(t_clients, "client_name",
                                                         "client_id", cli_filter))

\* C27 (as claimed): in safe mode a run that finds a filter naming nobody is
\* followed by at most two automatic reruns, after which both filters are
\* "(All)" or name an existing provider (client) and the page is rendered to
\* its end.
C27_AutoFixSettles ==
    (safe_mode /\ last.op = "rerun_across") =>
        /\ raised = NoException
        /\ prov_filter = ALL \/ HasName(t_providers, "provider_name", prov_filter)
        /\ cli_filter = ALL \/ HasName(t_clients, "client_name", cli_filter)

====
